---- MODULE Spec2Model ----
(***************************************************************************)
(* Verification model of the pole-data reconciliation engine               *)
(* (src/src/core).  Text is modelled as a sequence of one-character        *)
(* strings, so that stripping, case folding, substring search and the      *)
(* regular expressions of the source are computed and not assumed.         *)
(***************************************************************************)
EXTENDS Integers, Sequences, FiniteSets, TLC

VARIABLES
    pc,               \* position of the run that is being modelled
    scid,             \* raw identifier handed to Utils.normalize_scid
    ignore_keywords,  \* config['ignore_scid_keywords']
    normalized,       \* Utils.normalize_scid(scid, ignore_keywords)
    renormalized,     \* Utils.normalize_scid(normalized, ignore_keywords)
    config,           \* configuration values read by the attachment selector
    attachment_data,  \* rows of the pole's "SCID <n>" attachment sheet
    section,          \* (owner, height) pairs of the connection's section row
    trace,            \* locals of _process_attachments kept for inspection
    result,           \* the dict returned by _process_attachments
    span,             \* arguments and return value of _apply_span_length_tolerance
    run,              \* the sheets, template and QC source of one processing run
    result_data,      \* the rows of process_data, then of write_output
    workbook,         \* per template sheet, the rows write_output wrote into it
    key,              \* a sheet pole, a QC pole and the keys they are stored under
    audit,            \* one row of the Alden sheet, its QC record and its fills
    app               \* the window: button, stop flag, thread reference, workers

vars == <<pc, scid, ignore_keywords, normalized, renormalized,
          config, attachment_data, section, trace, result,
          span, run, result_data, workbook, key, audit, app>>

Unset == <<"unset">>

(***************************************************************************)
(* Characters and text helpers (Python str methods and re classes).        *)
(***************************************************************************)
LowerChars == <<"a","b","c","d","e","f","g","h","i","j","k","l","m",
                "n","o","p","q","r","s","t","u","v","w","x","y","z">>
UpperChars == <<"A","B","C","D","E","F","G","H","I","J","K","L","M",
                "N","O","P","Q","R","S","T","U","V","W","X","Y","Z">>
DigitChars == {"0","1","2","3","4","5","6","7","8","9"}

IsUpperChar(c) == \E i \in 1..26 : UpperChars[i] = c
IsLowerChar(c) == \E i \in 1..26 : LowerChars[i] = c
IsLetter(c) == IsUpperChar(c) \/ IsLowerChar(c)
IsDigit(c) == c \in DigitChars
IsSpace(c) == c = " "
\* \w of the re module, used by \b
IsWordChar(c) == IsLetter(c) \/ IsDigit(c) \/ c = "_"

LowerChar(c) == IF IsUpperChar(c)
                THEN LowerChars[CHOOSE i \in 1..26 : UpperChars[i] = c] ELSE c
UpperChar(c) == IF IsLowerChar(c)
                THEN UpperChars[CHOOSE i \in 1..26 : LowerChars[i] = c] ELSE c

\* str.lower() / str.upper()
Lower(s) == [i \in 1..Len(s) |-> LowerChar(s[i])]
Upper(s) == [i \in 1..Len(s) |-> UpperChar(s[i])]

RECURSIVE LStrip(_)
LStrip(s) == IF s # <<>> /\ IsSpace(Head(s)) THEN LStrip(Tail(s)) ELSE s
RECURSIVE RStrip(_)
RStrip(s) == IF s # <<>> /\ IsSpace(s[Len(s)])
             THEN RStrip(SubSeq(s, 1, Len(s) - 1)) ELSE s
\* str.strip()
Strip(s) == RStrip(LStrip(s))

\* length of the longest prefix of s whose characters all satisfy the class
RECURSIVE RunLen(_, _)
RunLen(s, cls) == IF s # <<>> /\ Head(s) \in cls THEN 1 + RunLen(Tail(s), cls) ELSE 0

Drop(s, n) == SubSeq(s, n + 1, Len(s))
Take(s, n) == SubSeq(s, 1, n)

CharsOf(s) == {s[i] : i \in 1..Len(s)}
AllDigits(s) == \A i \in 1..Len(s) : IsDigit(s[i])
AllLetters(s) == \A i \in 1..Len(s) : IsLetter(s[i])
LetterSet(s) == {c \in CharsOf(s) : IsLetter(c)}
DigitSet(s) == {c \in CharsOf(s) : IsDigit(c)}
SpaceSet(s) == {c \in CharsOf(s) : IsSpace(c)}

\* "needle in hay" of Python
Contains(hay, needle) ==
    \E i \in 0..(Len(hay) - Len(needle)) : SubSeq(hay, i + 1, i + Len(needle)) = needle

StartsWith(s, p) == Len(p) <= Len(s) /\ SubSeq(s, 1, Len(p)) = p

\* str(int(digits)): the decimal numeral without leading zeros
RECURSIVE StripZeros(_)
StripZeros(ds) == IF Len(ds) > 1 /\ Head(ds) = "0" THEN StripZeros(Tail(ds)) ELSE ds

\* re.sub(r'\s+', ' ', s)
RECURSIVE CollapseWs(_)
CollapseWs(s) ==
    IF s = <<>> THEN <<>>
    ELSE IF IsSpace(Head(s)) THEN <<" ">> \o CollapseWs(LStrip(s))
    ELSE <<Head(s)>> \o CollapseWs(Tail(s))

\* str.split(): the maximal runs of non-whitespace characters
RECURSIVE Split(_)
Split(s) ==
    LET t == LStrip(s)
        n == IF t = <<>> THEN 0
             ELSE IF \E i \in 1..Len(t) : IsSpace(t[i])
                  THEN (CHOOSE i \in 1..Len(t) :
                           IsSpace(t[i]) /\ \A j \in 1..(i - 1) : ~IsSpace(t[j])) - 1
                  ELSE Len(t)
    IN IF t = <<>> THEN <<>> ELSE <<Take(t, n)>> \o Split(Drop(t, n))

\* sep.join(parts)
RECURSIVE Join(_, _)
Join(parts, sep) ==
    IF parts = <<>> THEN <<>>
    ELSE IF Len(parts) = 1 THEN parts[1]
    ELSE parts[1] \o sep \o Join(Tail(parts), sep)

\* \b between position p and p + 1 of s (0 = before the first character)
IsWordAt(s, p) == p \in 1..Len(s) /\ IsWordChar(s[p])
WordBoundary(s, p) == IsWordAt(s, p) # IsWordAt(s, p + 1)

\* r'\b' + re.escape(kw) + r'\b' matches s at position i (re.IGNORECASE when ic)
MatchesWordAt(kw, s, i, ic) ==
    /\ i + Len(kw) - 1 <= Len(s)
    /\ \A j \in 1..Len(kw) :
          IF ic THEN LowerChar(s[i + j - 1]) = LowerChar(kw[j]) ELSE s[i + j - 1] = kw[j]
    /\ WordBoundary(s, i - 1)
    /\ WordBoundary(s, i + Len(kw) - 1)

\* re.search(r'\b' + re.escape(kw) + r'\b', s)
ContainsWord(s, kw) == \E i \in 1..Len(s) : MatchesWordAt(kw, s, i, FALSE)

\* re.sub(r'\b' + re.escape(kw) + r'\b', '', s, flags=re.IGNORECASE):
\* leftmost non-overlapping matches are deleted
RECURSIVE SubWordFrom(_, _, _)
SubWordFrom(kw, s, i) ==
    IF i > Len(s) THEN <<>>
    ELSE IF MatchesWordAt(kw, s, i, TRUE) THEN SubWordFrom(kw, s, i + Len(kw))
    ELSE <<s[i]>> \o SubWordFrom(kw, s, i + 1)

(***************************************************************************)
(* Utils.normalize_scid                                                    *)
(***************************************************************************)
\* the loop over ignore_keywords (utils.py 34-39)
RECURSIVE RemoveKeywords(_, _)
RemoveKeywords(s, kws) ==
    IF kws = <<>> THEN s
    ELSE LET kw == Strip(Head(kws))
             s1 == IF kw # <<>> THEN Strip(SubWordFrom(kw, s, 1)) ELSE s
         IN RemoveKeywords(s1, Tail(kws))

\* re.match(r'^0*(\d+)(?:\.0+)?([A-Za-z]*)$', s): a digit run, an optional
\* ".0...0" and letters up to the end
PlainDigits(s) == Take(s, RunLen(s, DigitChars))
\* the pattern without its optional (?:\.0+)? group
PlainRest_NoDecimal(s) == Drop(s, RunLen(s, DigitChars))
PlainRest(s) ==
    LET r == Drop(s, RunLen(s, DigitChars))
    IN IF r # <<>> /\ Head(r) = "." /\ RunLen(Tail(r), {"0"}) >= 1
       THEN Drop(Tail(r), RunLen(Tail(r), {"0"})) ELSE r
IsPlainNumeric(s) == PlainDigits(s) # <<>> /\ AllLetters(PlainRest(s))

\* one token of the complex branch (utils.py 58-72)
NormalizePart(part) ==
    IF AllDigits(part) THEN StripZeros(part)
    ELSE LET np == RunLen(part, {c \in CharsOf(part) : IsLetter(c)})
             r1 == Drop(part, np)
             nd == RunLen(r1, DigitChars)
             r2 == Drop(r1, nd)
         IN IF nd >= 1 /\ AllLetters(r2)
            THEN Upper(Take(part, np)) \o StripZeros(Take(r1, nd)) \o Upper(r2)
            ELSE Upper(part)

normalize_scid_impl(raw, kws) ==
    IF raw = <<>> THEN raw
    ELSE LET s0 == Strip(raw)
             s1 == IF s0 # <<>> /\ Head(s0) = "'" THEN Tail(s0) ELSE s0
             s2 == IF kws # <<>>
                   THEN Strip(CollapseWs(RemoveKeywords(s1, kws))) ELSE s1
         IN IF IsPlainNumeric(s2)
            THEN StripZeros(PlainDigits(s2)) \o Upper(PlainRest(s2))
            ELSE LET parts == Split(s2)
                 IN Join([i \in 1..Len(parts) |-> NormalizePart(parts[i])], <<" ">>)

normalize_scid(raw, kws) == normalize_scid_impl(raw, kws)

(***************************************************************************)
(* Identifier normalisation: inputs and the two applications.              *)
(***************************************************************************)
MaxScidLen == 4
ScidAlphabet == {"0", "1", "A", "a", " ", "'", "."}
SeqsUpTo(S, n) == UNION {[1..k -> S] : k \in 0..n}
ScidInputs == SeqsUpTo(ScidAlphabet, MaxScidLen)
IgnoreKeywordLists == { <<>>, << <<"A">> >>, << <<"a", "1">>, <<" ">> >> }

InitNorm ==
    /\ pc = "norm_ready"
    /\ scid \in ScidInputs
    /\ ignore_keywords \in IgnoreKeywordLists
    /\ normalized = Unset
    /\ renormalized = Unset
    /\ config = Unset
    /\ attachment_data = Unset
    /\ section = Unset
    /\ trace = Unset
    /\ result = Unset
    /\ span = Unset
    /\ run = Unset
    /\ result_data = Unset
    /\ workbook = Unset
    /\ key = Unset
    /\ audit = Unset
    /\ app = Unset

\* a reader keys a raw identifier: Utils.normalize_scid(scid, ignore_keywords)
Normalize ==
    /\ pc = "norm_ready"
    /\ normalized' = normalize_scid(scid, ignore_keywords)
    /\ pc' = "norm_once"
    /\ UNCHANGED <<scid, ignore_keywords, renormalized, config, attachment_data,
                   section, trace, result, span, run, result_data,
                   workbook, key, audit, app>>

\* a second reader normalises the already normalised key again
\* (AttachmentDataReader.get_scid_data on a key of load_attachment_data)
Renormalize ==
    /\ pc = "norm_once"
    /\ renormalized' = normalize_scid(normalized, ignore_keywords)
    /\ pc' = "norm_twice"
    /\ UNCHANGED <<scid, ignore_keywords, normalized, config, attachment_data,
                   section, trace, result, span, run, result_data,
                   workbook, key, audit, app>>

NextNorm == Normalize \/ Renormalize

SpecNorm == InitNorm /\ [][NextNorm]_vars

\* C1: normalising twice gives the same result as normalising once, for every
\* raw identifier and every ignore-keyword list.
C1_Idempotent == pc = "norm_twice" => renormalized = normalized

\* value of a digit string and the numeral of a natural number
DigitSeq == <<"0","1","2","3","4","5","6","7","8","9">>
DigitVal(c) == (CHOOSE i \in 1..10 : DigitSeq[i] = c) - 1
RECURSIVE Value(_)
Value(ds) == IF ds = <<>> THEN 0
             ELSE 10 * Value(SubSeq(ds, 1, Len(ds) - 1)) + DigitVal(ds[Len(ds)])
RECURSIVE Numeral(_)
Numeral(n) == IF n < 10 THEN <<DigitSeq[n + 1]>>
              ELSE Numeral(n \div 10) \o <<DigitSeq[(n % 10) + 1]>>

\* s is d digits, then (when z > 0) "." and z zeros, then letters only
PlainShape(s, d, z) ==
    LET dot == IF z > 0 THEN z + 1 ELSE 0
    IN /\ d >= 1
       /\ d + dot <= Len(s)
       /\ AllDigits(Take(s, d))
       /\ z > 0 => s[d + 1] = "." /\ \A i \in (d + 2)..(d + dot) : s[i] = "0"
       /\ AllLetters(Drop(s, d + dot))
IsPlainId(s) == \E d \in 1..Len(s), z \in 0..Len(s) : PlainShape(s, d, z)

\* C2: a plain numeric identifier (digits with leading zeros, optional
\* trailing ".0...0", optional trailing letters) normalises to the integer
\* value without leading zeros followed by the letters uppercased; "0011",
\* "11" and "11.0" all give "11".
C2_PlainNumeric ==
    pc # "norm_ready" =>
        /\ \A d \in 1..Len(scid), z \in 0..Len(scid) :
              PlainShape(scid, d, z) =>
                  normalized = Numeral(Value(Take(scid, d)))
                               \o Upper(Drop(scid, d + (IF z > 0 THEN z + 1 ELSE 0)))
        /\ scid \in { <<"0","0","1","1">>, <<"1","1">>, <<"1","1",".","0">> } =>
              normalized = <<"1","1">>

C2_Witness ==
    /\ pc = "norm_once"
    /\ scid = <<"0", "1", ".", "0">>
    /\ normalized = <<"1">>

(***************************************************************************)
(* Texts that occur in the configuration, the sheets and the output keys.  *)
(***************************************************************************)
T_Blank == <<>>
T_Xcel == <<"X","c","e","l">>
T_XcelEnergy == <<"X","c","e","l"," ","E","n","e","r","g","y">>
T_Comcast == <<"C","o","m","c","a","s","t">>
T_ATT == <<"A","T","&","T">>
T_MetroNet == <<"M","e","t","r","o","N","e","t">>
T_MNT == <<"M","N","T">>
T_ProposedMNT == <<"P","r","o","p","o","s","e","d"," ","M","N","T">>
T_ProposedMetroNet == <<"P","r","o","p","o","s","e","d"," ","M","e","t","r","o","N","e","t">>
T_ProposedZayo == <<"P","r","o","p","o","s","e","d"," ","Z","a","y","o">>
T_Zayo == <<"Z","a","y","o">>
T_ZayoFiber == <<"Z","a","y","o"," ","F","i","b","e","r">>
T_Acme == <<"A","c","m","e">>
T_Bell == <<"B","e","l","l">>
T_Fiber == <<"F","i","b","e","r">>
T_fiber == <<"f","i","b","e","r">>
T_CATV == <<"C","A","T","V">>
T_TelephoneCompany == <<"T","e","l","e","p","h","o","n","e"," ","C","o","m","p","a","n","y">>
T_ComCast == <<"C","o","m"," ","C","a","s","t">>
T_Commcast == <<"C","o","m","m","c","a","s","t">>
T_comcast == <<"c","o","m","c","a","s","t">>
T_ATTplain == <<"A","T","T">>
T_att == <<"a","t","t">>
T_Primary == <<"P","r","i","m","a","r","y">>
T_Secondary == <<"S","e","c","o","n","d","a","r","y">>
T_Neutral == <<"N","e","u","t","r","a","l">>
T_Riser == <<"R","i","s","e","r">>
T_SecondaryDripLoop == <<"S","e","c","o","n","d","a","r","y"," ","D","r","i","p"," ","L","o","o","p">>
T_SecondaryRiser == <<"S","e","c","o","n","d","a","r","y"," ","R","i","s","e","r">>
T_TelcoCom == <<"T","e","l","c","o"," ","C","o","m">>
T_telcocom == <<"t","e","l","c","o"," ","c","o","m">>
T_catvcom == <<"c","a","t","v"," ","c","o","m">>
T_CATVCom == <<"C","A","T","V"," ","C","o","m">>
T_guy == <<"g","u","y">>
T_Guy == <<"G","u","y">>
T_DownGuy == <<"D","o","w","n"," ","G","u","y">>
T_telcoStar == <<"t","e","l","c","o","*">>
T_powerguy == <<"p","o","w","e","r"," ","g","u","y">>
T_riser == <<"r","i","s","e","r">>
T_proposedSp == <<"p","r","o","p","o","s","e","d"," ">>
T_metronet == <<"m","e","t","r","o","n","e","t">>
T_proposedmetronet == <<"p","r","o","p","o","s","e","d"," ","m","e","t","r","o","n","e","t">>
T_mnt == <<"m","n","t">>
T_proposedmnt == <<"p","r","o","p","o","s","e","d"," ","m","n","t">>
T_comm1 == <<"c","o","m","m","1">>
T_comm2 == <<"c","o","m","m","2">>
T_comm3 == <<"c","o","m","m","3">>
T_comm4 == <<"c","o","m","m","4">>
T_Midspan == <<"_","M","i","d","s","p","a","n">>
T_PowerHeight == <<"P","o","w","e","r"," ","H","e","i","g","h","t">>
T_PowerMidspan == <<"P","o","w","e","r"," ","M","i","d","s","p","a","n">>
T_PowerType == <<"P","o","w","e","r"," ","T","y","p","e">>
T_AllCommHeights == <<"A","l","l","_","C","o","m","m","_","H","e","i","g","h","t","s">>
T_TotalCommCount == <<"T","o","t","a","l","_","C","o","m","m","_","C","o","u","n","t">>
T_AttachmentHt == <<"A","t","t","a","c","h","m","e","n","t"," ","H","t">>
T_MidspanHt == <<"M","i","d","s","p","a","n"," ","H","t">>

(***************************************************************************)
(* Numbers and heights.                                                    *)
(*   A numeric height cell is kept in tenths of an inch, a parsed midspan  *)
(*   height in hundredths of a foot.  A formatted height is the text       *)
(*   F' I" (<<"ftin", F, I>>) or the two-decimal text F.dd (<<"dec", n>>,   *)
(*   n in hundredths); a comma-joined cell is the sequence of its heights, *)
(*   the empty sequence being the blank cell.                              *)
(***************************************************************************)
\* float NaN of pd.to_numeric(errors='coerce'): like NaN it is neither a
\* height of a sheet nor greater than zero
NaN == 0 - 1000000
\* Python None where a text is expected, where a parsed height is expected
\* and where find_power_attachment's dict is expected
None == <<"None">>
NoneHeight == 0 - 1
NoAttachment == [row |-> 0]
Blank == <<>>

RECURSIVE Pow10(_)
Pow10(k) == IF k = 0 THEN 1 ELSE 10 * Pow10(k - 1)

\* Python round() of the rational num/den (num, den > 0): half to even
RoundHalfEven(num, den) ==
    LET q == num \div den
        r == num % den
    IN IF 2 * r < den THEN q
       ELSE IF 2 * r > den THEN q + 1
       ELSE IF q % 2 = 0 THEN q ELSE q + 1

\* str.replace('"', '')
RemoveQuotes(t) == SelectSeq(t, LAMBDA c : c # "\"")

\* pd.to_numeric(text, errors='coerce') on the numerals of the sheets: an
\* optional sign, digits and at most one fractional digit; tenths of an inch
ToNumeric(t) ==
    LET neg == t # <<>> /\ Head(t) = "-"
        u == IF neg THEN Tail(t) ELSE t
        ni == RunLen(u, DigitChars)
        r == Drop(u, ni)
        frac == IF r # <<>> /\ Head(r) = "." THEN Tail(r) ELSE <<>>
        shape == /\ ni >= 1
                 /\ r # <<>> => Head(r) = "." /\ Len(frac) <= 1 /\ AllDigits(frac)
        mag == 10 * Value(Take(u, ni)) + (IF frac = <<>> THEN 0 ELSE Value(frac))
    IN IF shape THEN (IF neg THEN 0 - mag ELSE mag) ELSE NaN

\* int(height_inches) of a positive height in tenths
IntInches(tenths) == tenths \div 10

\* Utils.inches_to_feet_format(str(n)) for the integer text n
inches_to_feet_format(n) ==
    IF n < 0 THEN Blank ELSE <<"ftin", n \div 12, n % 12>>

\* Utils.feet_inches_to_decimal_format on F' I": parse_height_decimal's
\* third pattern, round(F + I / 12, 2), printed with two decimals
feet_inches_to_decimal_format(h) ==
    <<"dec", 100 * h[2] + RoundHalfEven(100 * h[3], 12)>>

\* _format_height_for_output
format_height_for_output(cfg, h) ==
    IF h = Blank THEN Blank
    ELSE IF cfg.output_decimal THEN feet_inches_to_decimal_format(h)
    ELSE h

\* Utils.parse_height_format: the five patterns in order
parse_height_format(raw) ==
    LET s == Strip(raw)
        d1 == RunLen(s, DigitChars)
        a == Drop(s, d1)                      \* after the leading digits
        q == IF a # <<>> /\ Head(a) = "'" THEN Tail(a) ELSE <<>>
        hasQ == a # <<>> /\ Head(a) = "'"
        m == IF q # <<>> /\ Head(q) = "-" /\ RunLen(Tail(q), DigitChars) >= 1
             THEN Tail(q) ELSE q              \* after the optional dash
        d2 == RunLen(m, DigitChars)
        sp == RunLen(q, {" "})
        d3 == RunLen(Drop(q, sp), DigitChars)
        fr == IF a # <<>> /\ Head(a) = "." THEN Take(Tail(a), RunLen(Tail(a), DigitChars))
              ELSE <<>>
        feet == Value(Take(s, d1))
    IN IF s = <<>> THEN Blank
       ELSE IF d1 >= 1 /\ hasQ /\ d2 >= 1 /\ Drop(m, d2) # <<>> /\ Head(Drop(m, d2)) = "\""
            THEN <<"ftin", feet, Value(Take(m, d2))>>
       ELSE IF d1 >= 1 /\ hasQ /\ sp >= 1 /\ d3 >= 1
            THEN <<"ftin", feet, Value(Take(Drop(q, sp), d3))>>
       ELSE IF d1 >= 1 /\ hasQ THEN <<"ftin", feet, 0>>
       ELSE IF d1 >= 1 /\ fr # <<>>
            THEN <<"ftin", feet, RoundHalfEven(12 * Value(fr), Pow10(Len(fr)))>>
       ELSE IF d1 >= 1 /\ a = <<>> THEN <<"ftin", feet, 0>>
       ELSE Blank

\* Utils.parse_height_decimal: hundredths of a foot, or None (NoneHeight)
parse_height_decimal(raw) ==
    LET s == Strip(raw)
        d1 == RunLen(s, DigitChars)
        a == Drop(s, d1)
        hasQ == a # <<>> /\ Head(a) = "'"
        q == IF hasQ THEN Tail(a) ELSE <<>>
        m == IF q # <<>> /\ Head(q) = "-" /\ RunLen(Tail(q), DigitChars) >= 1
             THEN Tail(q) ELSE q
        d2 == RunLen(m, DigitChars)
        hasFt == StartsWith(a, <<"f", "t">>)
        f == IF hasFt THEN Drop(a, 2) ELSE <<>>
        fsp == RunLen(f, {" "})
        fd == RunLen(Drop(f, fsp), DigitChars)
        sp == RunLen(q, {" "})
        d3 == RunLen(Drop(q, sp), DigitChars)
        fr == IF a # <<>> /\ Head(a) = "." THEN Take(Tail(a), RunLen(Tail(a), DigitChars))
              ELSE <<>>
        feet == Value(Take(s, d1))
        FtIn(ft, inch) == 100 * ft + RoundHalfEven(100 * inch, 12)
        num == feet * Pow10(Len(fr)) + Value(fr)   \* the number is num / 10^Len(fr)
    IN IF s = <<>> THEN NoneHeight
       ELSE IF d1 >= 1 /\ hasQ /\ d2 >= 1 /\ Drop(m, d2) # <<>> /\ Head(Drop(m, d2)) = "\""
            THEN FtIn(feet, Value(Take(m, d2)))
       ELSE IF d1 >= 1 /\ hasFt /\ fd >= 1
               /\ StartsWith(Drop(Drop(f, fsp), fd), <<"i", "n">>)
            THEN FtIn(feet, Value(Take(Drop(f, fsp), fd)))
       ELSE IF d1 >= 1 /\ hasQ
            THEN FtIn(feet, IF d3 >= 1 THEN Value(Take(Drop(q, sp), d3)) ELSE 0)
       ELSE IF d1 >= 1
            THEN IF "." \in CharsOf(s) /\ num < 50 * Pow10(Len(fr))
                 THEN RoundHalfEven(100 * num, Pow10(Len(fr)))
                 ELSE RoundHalfEven(100 * num, 12 * Pow10(Len(fr)))
       ELSE NoneHeight

(***************************************************************************)
(* Python containers: dicts are functions, lists are sequences.            *)
(***************************************************************************)
EmptyDict == [k \in {} |-> Blank]
Put(d, k, v) == [x \in (DOMAIN d) \cup {k} |-> IF x = k THEN v ELSE d[x]]
\* {**a, **b}
Merge(a, b) == [x \in (DOMAIN a) \cup (DOMAIN b) |-> IF x \in DOMAIN b THEN b[x] ELSE a[x]]
Get(d, k) == IF k \in DOMAIN d THEN d[k] ELSE Blank

\* list.sort(key=lambda x: x[0], reverse=True): stable, descending by the
\* first component
InsertDesc_Unsorted(sorted, x) == <<x>> \o sorted
RECURSIVE InsertDesc(_, _)
InsertDesc(sorted, x) ==
    IF sorted = <<>> THEN <<x>>
    ELSE IF Head(sorted)[1] >= x[1] THEN <<Head(sorted)>> \o InsertDesc(Tail(sorted), x)
    ELSE <<x>> \o sorted
RECURSIVE SortDesc(_)
SortDesc(s) ==
    IF s = <<>> THEN <<>>
    ELSE InsertDesc(SortDesc(SubSeq(s, 1, Len(s) - 1)), s[Len(s)])

\* min(list, key=lambda x: x[0]): the first entry with the least key
MinEntry(s) ==
    s[CHOOSE i \in 1..Len(s) :
        \A j \in 1..Len(s) : s[i][1] < s[j][1] \/ (s[i][1] = s[j][1] /\ i <= j)]

\* the seen-set loop: first occurrences, order kept
Dedupe_KeepAll(s) == s
RECURSIVE Dedupe(_)
Dedupe(s) ==
    IF s = <<>> THEN <<>>
    ELSE LET front == Dedupe(SubSeq(s, 1, Len(s) - 1))
             x == s[Len(s)]
         IN IF \E i \in 1..Len(front) : front[i] = x THEN front ELSE Append(front, x)

RECURSIVE Concat(_)
Concat(ss) == IF ss = <<>> THEN <<>> ELSE Head(ss) \o Concat(Tail(ss))

(***************************************************************************)
(* Configuration readers of PoleDataProcessor / AttachmentDataReader.      *)
(***************************************************************************)
PowerCompany(cfg) == Lower(Strip(cfg.power_company))
ProposedCompany(cfg) == Lower(Strip(cfg.proposed_company))

LegacyMetroNetKeywords == {T_proposedmetronet, T_metronet, T_proposedmnt, T_mnt}

IsAlnumLower(c) == IsLowerChar(c) \/ IsDigit(c)
\* re.sub(r'[^a-z0-9]+', ' ', s)
RECURSIVE SubNonAlnum(_)
SubNonAlnum(s) ==
    IF s = <<>> THEN <<>>
    ELSE IF IsAlnumLower(Head(s)) THEN <<Head(s)>> \o SubNonAlnum(Tail(s))
    ELSE LET t == Tail(s)
         IN <<" ">> \o SubNonAlnum(Drop(t, RunLen(t, {c \in CharsOf(t) : ~IsAlnumLower(c)})))

get_proposed_company_keywords(cfg) ==
    LET pcy == ProposedCompany(cfg)
        own == IF pcy = <<>> THEN {}
               ELSE {pcy, Strip(SubNonAlnum(pcy))}
                    \cup (IF StartsWith(pcy, T_proposedSp) THEN {Drop(pcy, Len(T_proposedSp))}
                          ELSE {})
    IN {kw \in own \cup LegacyMetroNetKeywords : kw # <<>>}

SeqToSet(s) == {s[i] : i \in 1..Len(s)}

\* the "power guy" branch of _match_metronet
PowerGuyProviders(cfg) ==
    (IF cfg.telecom_keywords # <<>>
     THEN UNION {{Lower(k) : k \in SeqToSet(cfg.telecom_keywords[i].keywords)} :
                    i \in 1..Len(cfg.telecom_keywords)}
     ELSE {Lower(pr) : pr \in {x \in SeqToSet(cfg.telecom_providers) : x # <<>>}}
          \cup get_proposed_company_keywords(cfg))
    \cup {Lower(k) : k \in SeqToSet(cfg.power_keywords)}

match_metronet(cfg, owner) ==
    LET owner_str == Lower(owner)
    IN \/ \E kw \in get_proposed_company_keywords(cfg) : Contains(owner_str, Lower(kw))
       \/ /\ Contains(owner_str, T_powerguy)
          /\ \E pr \in PowerGuyProviders(cfg) : Contains(owner_str, pr) /\ pr # T_powerguy

match_telecom_provider(cfg, owner) ==
    LET owner_str == Lower(owner)
        tk == cfg.telecom_keywords
        Hit(i) == \E k \in SeqToSet(tk[i].keywords) : Contains(owner_str, Lower(k))
        tp == cfg.telecom_providers
        PHit(i) == tp[i] # <<>> /\ Contains(owner_str, Lower(tp[i]))
    IN IF \E i \in 1..Len(tk) : Hit(i)
       THEN tk[CHOOSE i \in 1..Len(tk) : Hit(i) /\ \A j \in 1..(i - 1) : ~Hit(j)].provider
       ELSE IF \E kw \in get_proposed_company_keywords(cfg) : Contains(owner_str, kw)
       THEN T_ProposedMetroNet
       ELSE IF \E i \in 1..Len(tp) : PHit(i)
       THEN tp[CHOOSE i \in 1..Len(tp) : PHit(i) /\ \A j \in 1..(i - 1) : ~PHit(j)]
       ELSE None

CommFieldNames == <<T_comm1, T_comm2, T_comm3, T_comm4>>

_get_mapped_elements(cfg) ==
    LET md == SeqToSet(cfg.mapping_data)
        tps == SeqToSet(cfg.telecom_providers)
        cf == SeqToSet(CommFieldNames)
    IN [providers |-> {e[1] : e \in {x \in md : x[1] \in tps /\ x[2] = T_AttachmentHt}},
        midspan |-> {e[1] : e \in {x \in md : x[1] \in tps /\ x[2] = T_MidspanHt}},
        comm_attach |-> {e[1] : e \in {x \in md : x[1] \in cf /\ x[2] = T_AttachmentHt}},
        comm_midspan |-> {e[1] : e \in {x \in md : x[1] \in cf /\ x[2] = T_MidspanHt}}]

(***************************************************************************)
(* AttachmentDataReader.find_power_attachment                              *)
(***************************************************************************)
company_stripped(row) == Lower(Strip(row.company))
measured_stripped(row) == Lower(Strip(row.measured))

keyword_map(kws) == SelectSeq(kws, LAMBDA kw : Strip(kw) # <<>>)

company_matches_power(cfg, row) ==
    /\ PowerCompany(cfg) # <<>>
    /\ ContainsWord(company_stripped(row), PowerCompany(cfg))

\* the filter with the company mask left out
company_filter_AnyCompany(cfg, row) == TRUE
\* candidate_rows = df[company_mask | blank_mask], or every row when no
\* power company is configured
company_filter(cfg, row) ==
    IF PowerCompany(cfg) # <<>>
    THEN company_matches_power(cfg, row) \/ company_stripped(row) = <<>>
    ELSE TRUE

\* longest keyword first (ties in list order), the first contained wins
find_keyword(kws, measured_text) ==
    LET km == keyword_map(kws)
        byLen == SortDesc([i \in 1..Len(km) |-> <<Len(Lower(Strip(km[i]))), km[i]>>])
        hits == SelectSeq(byLen, LAMBDA e : Contains(measured_text, Lower(Strip(e[2]))))
    IN IF hits = <<>> THEN None ELSE hits[1][2]

requires_power(keyword) == Contains(Lower(Strip(keyword)), T_riser)

riser_gate(cfg, row, keyword) ==
    ~(requires_power(keyword) /\ ~company_matches_power(cfg, row))

\* rows left after the company filter, the keyword match and the riser gate
power_candidates(cfg, df) ==
    {i \in 1..Len(df) :
        /\ company_filter(cfg, df[i])
        /\ find_keyword(cfg.power_keywords, measured_stripped(df[i])) # None
        /\ riser_gate(cfg, df[i], find_keyword(cfg.power_keywords, measured_stripped(df[i])))}

height_numeric(row) == ToNumeric(RemoveQuotes(row.height_in_inches))

\* dropna(subset=['height_numeric']) and height_numeric > 0
valid_rows(cfg, df) ==
    {i \in power_candidates(cfg, df) :
        height_numeric(df[i]) # NaN /\ height_numeric(df[i]) > 0}

\* height_numeric.idxmin(): the first row with the least height
lowest_row_Highest(df, valid) ==
    CHOOSE i \in valid :
        \A j \in valid : height_numeric(df[i]) >= height_numeric(df[j])
lowest_row(df, valid) ==
    CHOOSE i \in valid :
        \A j \in valid : \/ height_numeric(df[i]) < height_numeric(df[j])
                          \/ (height_numeric(df[i]) = height_numeric(df[j]) /\ i <= j)

find_power_attachment(cfg, df) ==
    IF df = <<>> THEN NoAttachment
    ELSE IF keyword_map(cfg.power_keywords) = <<>> THEN NoAttachment
    ELSE IF valid_rows(cfg, df) = {} THEN NoAttachment
    ELSE LET m == lowest_row(df, valid_rows(cfg, df))
         IN [height |-> format_height_for_output(cfg,
                            inches_to_feet_format(IntInches(height_numeric(df[m])))),
             height_decimal |-> height_numeric(df[m]),
             keyword |-> find_keyword(cfg.power_keywords, measured_stripped(df[m])),
             row |-> m]

(***************************************************************************)
(* PoleDataProcessor._process_attachments: the communication rows.         *)
(***************************************************************************)
\* the keyword loop (1515-1533): "guy" exact, trailing * substring, else exact
is_comm_by_keyword(cfg, row) ==
    LET measured_clean == Lower(Strip(row.measured))
    IN \E i \in 1..Len(cfg.comm_keywords) :
          LET kw_clean == Lower(Strip(cfg.comm_keywords[i]))
          IN IF kw_clean = T_guy THEN kw_clean = measured_clean
             ELSE IF kw_clean # <<>> /\ kw_clean[Len(kw_clean)] = "*"
                  THEN Contains(measured_clean, Take(kw_clean, Len(kw_clean) - 1))
             ELSE kw_clean = measured_clean

_is_telecom_company_AnyCompany(cfg, company_name) ==
    ~(company_name = <<>> \/ Strip(company_name) = <<>>)
_is_telecom_company(cfg, company_name) ==
    IF company_name = <<>> \/ Strip(company_name) = <<>> THEN FALSE
    ELSE IF PowerCompany(cfg) = <<>> THEN TRUE
    ELSE ~Contains(Lower(company_name), PowerCompany(cfg))

is_proposed_company(cfg, company) ==
    ProposedCompany(cfg) # <<>> /\ Contains(company, ProposedCompany(cfg))

is_comm(cfg, row) ==
    /\ is_comm_by_keyword(cfg, row)
    /\ _is_telecom_company(cfg, Lower(row.company))
    /\ ~is_proposed_company(cfg, Lower(row.company))

\* height_in_inches of a communication row, in tenths, or NaN
comm_height(row) ==
    IF Strip(row.height_in_inches) = <<>> THEN NaN
    ELSE ToNumeric(Strip(RemoveQuotes(row.height_in_inches)))

\* the row reaches the body of the loop (1577-1615)
comm_row_counts(cfg, row) ==
    is_comm(cfg, row) /\ comm_height(row) # NaN /\ comm_height(row) > 0

row_provider(cfg, row) ==
    LET company_str == Strip(row.company)
        matched == match_telecom_provider(cfg, company_str)
    IN IF matched # None /\ matched # <<>> THEN matched ELSE company_str

comm_entry(cfg, row) ==
    <<comm_height(row),
      format_height_for_output(cfg, inches_to_feet_format(IntInches(comm_height(row))))>>

\* dict of lists in insertion order: append to the provider's list
add_to_group(groups, provider, entries) ==
    IF \E i \in 1..Len(groups) : groups[i].provider = provider
    THEN [i \in 1..Len(groups) |->
             IF groups[i].provider = provider
             THEN [groups[i] EXCEPT !.heights = @ \o entries] ELSE groups[i]]
    ELSE Append(groups, [provider |-> provider, heights |-> entries])

\* processed_attachments after the first n rows
RECURSIVE processed_attachments(_, _, _)
processed_attachments(cfg, df, n) ==
    IF n = 0 THEN <<>>
    ELSE LET prev == processed_attachments(cfg, df, n - 1)
         IN IF comm_row_counts(cfg, df[n]) /\ row_provider(cfg, df[n]) # <<>>
            THEN add_to_group(prev, row_provider(cfg, df[n]), <<comm_entry(cfg, df[n])>>)
            ELSE prev

\* telecom_heights after the first n rows: heights within 0.01 ft of one
\* already listed and heights of the proposed company are left out
RECURSIVE telecom_heights(_, _, _)
telecom_heights(cfg, df, n) ==
    IF n = 0 THEN <<>>
    ELSE LET prev == telecom_heights(cfg, df, n - 1)
             h == comm_height(df[n])
             Abs(x) == IF x < 0 THEN 0 - x ELSE x
         IN IF /\ comm_row_counts(cfg, df[n])
               /\ ~\E i \in 1..Len(prev) : 10 * Abs(h - prev[i]) < 12
               /\ ~match_metronet(cfg, row_provider(cfg, df[n]))
            THEN Append(prev, h) ELSE prev

\* heights sorted highest first, formatted, identical texts listed once
combined_heights(height_list) ==
    LET sorted == SortDesc(height_list)
    IN Dedupe([i \in 1..Len(sorted) |-> sorted[i][2]])

\* (highest_height, provider, combined_heights) per group, sorted by highest
\* height
rank_groups(kept) ==
    SortDesc([i \in 1..Len(kept) |->
                 <<SortDesc(kept[i].heights)[1][1], kept[i].provider,
                   combined_heights(kept[i].heights)>>])

\* the groups that are not the proposed company's, ranked (1630-1653)
provider_heights(cfg, groups) ==
    rank_groups(SelectSeq(groups, LAMBDA g : g.heights # <<>>
                                             /\ ~match_metronet(cfg, g.provider)))

MaxCommFields == 4
Min(a, b) == IF a < b THEN a ELSE b

\* comm1..comm4 in height order (1656-1669)
assign_comm_fields(ph) ==
    LET n == Min(Len(ph), MaxCommFields)
    IN [k \in {CommFieldNames[i] : i \in 1..n} |->
           ph[CHOOSE i \in 1..n : CommFieldNames[i] = k][3]]

\* every height of the proposed company's groups (1671-1678, 1742-1749)
metronet_heights_of(cfg, groups) ==
    Concat([i \in 1..Len(groups) |->
               IF groups[i].heights # <<>> /\ match_metronet(cfg, groups[i].provider)
               THEN groups[i].heights ELSE <<>>])

\* the proposed company's own field (1680-1695)
attach_metronet(attach, heights) ==
    IF heights # <<>> /\ T_ProposedMetroNet \in DOMAIN attach
    THEN Put(attach, T_ProposedMetroNet, combined_heights(heights))
    ELSE attach

\* the groups of provider k that are not the proposed company's
own_groups(cfg, groups, k) ==
    {i \in 1..Len(groups) : /\ groups[i].provider = k
                            /\ groups[i].heights # <<>>
                            /\ ~match_metronet(cfg, groups[i].provider)}

\* the provider fields (1697-1711)
attach_providers(cfg, groups, attach) ==
    [k \in DOMAIN attach |->
        IF own_groups(cfg, groups, k) # {}
        THEN combined_heights(groups[CHOOSE i \in own_groups(cfg, groups, k) : TRUE].heights)
        ELSE attach[k]]

attach_fill(cfg, mapped, groups) ==
    attach_providers(
        cfg, groups,
        attach_metronet(Merge([pr \in mapped.providers |-> Blank],
                              assign_comm_fields(provider_heights(cfg, groups))),
                        metronet_heights_of(cfg, groups)))

\* the attach dict after the attachment block (1457, 1656-1711)
attach_dict(cfg, df) ==
    attach_fill(cfg, _get_mapped_elements(cfg), processed_attachments(cfg, df, Len(df)))

comm_attach_fill(mapped, assigned) ==
    [k \in mapped.comm_attach \cup {T_AllCommHeights, T_TotalCommCount} |->
        IF k \in DOMAIN assigned THEN assigned[k] ELSE Blank]

comm_attach_dict(cfg, df) ==
    comm_attach_fill(
        _get_mapped_elements(cfg),
        assign_comm_fields(provider_heights(cfg, processed_attachments(cfg, df, Len(df)))))

(***************************************************************************)
(* Midspan: the section loop and _process_midspan.                         *)
(***************************************************************************)
ensure_group(groups, provider) == add_to_group(groups, provider, <<>>)

\* the entry a usable height adds to a midspan group
midspan_entry(dec, formatted_fmt) ==
    IF dec # NoneHeight /\ formatted_fmt # Blank THEN <<<<dec, formatted_fmt>>>> ELSE <<>>

\* _process_midspan (1928-1964): the proposed company's group, then the
\* matched telecom provider's group
midspan_group_metronet(mapped, groups, isMetro, entry) ==
    IF isMetro /\ T_ProposedMetroNet \in mapped.midspan
    THEN add_to_group(ensure_group(groups, T_ProposedMetroNet), T_ProposedMetroNet, entry)
    ELSE groups
midspan_group_matched(mapped, groups, matched, entry) ==
    IF matched # None /\ matched # <<>> /\ matched \in mapped.midspan
    THEN add_to_group(ensure_group(groups, matched), matched, entry)
    ELSE groups

\* one section pair, its height parsed in both notations (1715-1729)
midspan_step(cfg, prev, owner, fmt, dec, formatted_fmt, isMetro, matched, mapped) ==
    [provider_midspan_heights |->
         midspan_group_matched(
             mapped,
             midspan_group_metronet(mapped, prev.provider_midspan_heights, isMetro,
                                    midspan_entry(dec, formatted_fmt)),
             matched, midspan_entry(dec, formatted_fmt)),
     all_telecom_midspan |->
         IF /\ (matched # None /\ matched # <<>>) \/ isMetro
            /\ dec # NoneHeight /\ fmt # Blank /\ ~isMetro
         THEN Append(prev.all_telecom_midspan, <<dec, formatted_fmt, owner>>)
         ELSE prev.all_telecom_midspan,
     power_midspan_heights |->
         IF /\ \E k \in SeqToSet(cfg.power_keywords) : Contains(Lower(owner), Lower(k))
            /\ dec # NoneHeight
         THEN Append(prev.power_midspan_heights, <<dec, formatted_fmt>>)
         ELSE prev.power_midspan_heights]

midspan_parsed(cfg, prev, owner, fmt, dec) ==
    midspan_step(cfg, prev, owner, fmt, dec,
                 IF fmt # Blank THEN format_height_for_output(cfg, fmt) ELSE fmt,
                 match_metronet(cfg, owner), match_telecom_provider(cfg, owner),
                 _get_mapped_elements(cfg))

\* state of the three midspan collections after the first n section pairs;
\* sec lists the POA_ owners whose height cell is not NaN, in column order
RECURSIVE midspan_state(_, _, _)
midspan_state(cfg, sec, n) ==
    IF n = 0
    THEN [provider_midspan_heights |-> <<>>, all_telecom_midspan |-> <<>>,
          power_midspan_heights |-> <<>>]
    ELSE midspan_parsed(cfg, midspan_state(cfg, sec, n - 1), sec[n].owner,
                        parse_height_format(sec[n].height),
                        parse_height_decimal(sec[n].height))

MidspanKey(name) == name \o T_Midspan

\* the proposed company's own midspan field (1751-1760)
attach_midspan_metronet(mapped, d, heights) ==
    IF heights # <<>> /\ T_ProposedMetroNet \in mapped.midspan
    THEN Put(d, MidspanKey(T_ProposedMetroNet), combined_heights(heights))
    ELSE d

\* the mapped groups of the provider of field k that are not the proposed
\* company's
own_midspan_groups(cfg, mapped, groups, k) ==
    {i \in 1..Len(groups) : /\ MidspanKey(groups[i].provider) = k
                            /\ groups[i].heights # <<>>
                            /\ groups[i].provider \in mapped.midspan
                            /\ ~match_metronet(cfg, groups[i].provider)}

\* the provider midspan fields (1762-1775)
attach_midspan_providers(cfg, mapped, groups, d) ==
    [k \in DOMAIN d |->
        IF own_midspan_groups(cfg, mapped, groups, k) # {}
        THEN combined_heights(
                 groups[CHOOSE i \in own_midspan_groups(cfg, mapped, groups, k) : TRUE].heights)
        ELSE d[k]]

attach_midspan_fill(cfg, mapped, groups) ==
    attach_midspan_providers(
        cfg, mapped, groups,
        attach_midspan_metronet(mapped,
                                [k \in {MidspanKey(pr) : pr \in mapped.midspan} |-> Blank],
                                metronet_heights_of(cfg, groups)))

\* attach_midspan after the grouping (1458, 1742-1775)
attach_midspan_dict(cfg, sec) ==
    attach_midspan_fill(cfg, _get_mapped_elements(cfg),
                        midspan_state(cfg, sec, Len(sec)).provider_midspan_heights)

\* an entry of all_telecom_midspan joins the group of its matched provider
midspan_group_add(prev, matched, entry) ==
    IF matched # None /\ matched # <<>>
    THEN add_to_group(prev, matched, <<<<entry[1], entry[2]>>>>)
    ELSE prev

\* midspan_processed_by_provider after the first n entries of all_telecom_midspan
RECURSIVE midspan_processed_by_provider(_, _, _)
midspan_processed_by_provider(cfg, atm, n) ==
    IF n = 0 THEN <<>>
    ELSE midspan_group_add(midspan_processed_by_provider(cfg, atm, n - 1),
                           match_telecom_provider(cfg, atm[n][3]), atm[n])

midspan_groups_of(cfg, atm) == midspan_processed_by_provider(cfg, atm, Len(atm))

\* provider_midspan_heights_for_comm, sorted (1791-1809)
provider_midspan_heights_for_comm(cfg, sec) ==
    rank_groups(midspan_groups_of(cfg, midspan_state(cfg, sec, Len(sec)).all_telecom_midspan))

comm_midspan_fill(mapped, assigned) ==
    [k \in {MidspanKey(c) : c \in mapped.comm_midspan} |->
        IF \E c \in DOMAIN assigned : MidspanKey(c) = k
        THEN assigned[CHOOSE c \in DOMAIN assigned : MidspanKey(c) = k]
        ELSE Blank]

comm_midspan_dict(cfg, sec) ==
    comm_midspan_fill(_get_mapped_elements(cfg),
                      assign_comm_fields(provider_midspan_heights_for_comm(cfg, sec)))

(***************************************************************************)
(* _calculate_power_heights and the returned dict.                         *)
(***************************************************************************)
MaxOf(s) == CHOOSE x \in SeqToSet(s) : \A y \in SeqToSet(s) : y <= x

_calculate_power_heights(power_heights, power_midspan_heights, tel_heights) ==
    LET valid_heights == SelectSeq(power_heights, LAMBDA e : e[1] > 0)
        min_threshold == IF tel_heights # <<>> THEN MaxOf(tel_heights) ELSE 0
        valid_power == SelectSeq(valid_heights, LAMBDA e : e[1] >= min_threshold)
        lowest_entry == IF valid_power # <<>> THEN MinEntry(valid_power)
                        ELSE MinEntry(valid_heights)
        found == power_heights # <<>> /\ valid_heights # <<>>
    IN (T_PowerHeight :> (IF found THEN lowest_entry[2] ELSE Blank))
       @@ (T_PowerMidspan :> (IF power_midspan_heights # <<>>
                              THEN MinEntry(power_midspan_heights)[2] ELSE Blank))
       @@ (T_PowerType :> (IF found THEN lowest_entry[3] ELSE Blank))

\* power_heights: the one entry of the selected power attachment (1471-1485)
power_heights_of(pa) ==
    IF pa # NoAttachment
    THEN << <<pa.height_decimal, pa.height, pa.keyword>> >> ELSE <<>>

\* the part of the returned dict that the attachment, midspan, comm and
\* power processing writes
_process_attachments(cfg, df, sec) ==
    Merge(Merge(Merge(Merge(attach_dict(cfg, df), attach_midspan_dict(cfg, sec)),
                      comm_attach_dict(cfg, df)),
                comm_midspan_dict(cfg, sec)),
          _calculate_power_heights(
              power_heights_of(find_power_attachment(cfg, df)),
              midspan_state(cfg, sec, Len(sec)).power_midspan_heights,
              telecom_heights(cfg, df, Len(df))))

(***************************************************************************)
(* _create_output_row: the attachment part of one output row.              *)
(***************************************************************************)
T_XcelInc == <<"X","c","e","l"," ","I","n","c",".">>
T_Verizon == <<"V","e","r","i","z","o","n">>
T_JacksonISD == <<"J","a","c","k","s","o","n"," ","I","S","D">>
T_Lightower == <<"L","i","g","h","t","o","w","e","r">>
T_lightower == <<"l","i","g","h","t","o","w","e","r">>
T_Kellogg == <<"K","e","l","l","o","g","g">>
T_kellogg == <<"k","e","l","l","o","g","g">>
T_MCI == <<"M","C","I">>
T_mci == <<"m","c","i">>
T_telephonecompany == <<"t","e","l","e","p","h","o","n","e"," ","c","o","m","p","a","n","y">>
T_telco == <<"t","e","l","c","o">>
T_catvStar == <<"c","a","t","v","*">>
T_Transformer == <<"T","r","a","n","s","f","o","r","m","e","r">>
T_In0 == <<"0">>
T_In216 == <<"2","1","6">>
T_In228 == <<"2","2","8">>
T_In240 == <<"2","4","0">>
T_In252 == <<"2","5","2">>
T_In270 == <<"2","7","0">>
T_In276 == <<"2","7","6">>
T_In300_5 == <<"3","0","0",".","5">>
T_InQuoted == <<"2","4","0","\"">>
T_Ft20_6 == <<"2","0","'"," ","6","\"">>
T_Ft25 == <<"2","5">>
T_Ft18_5 == <<"1","8",".","5">>
T_Ft22 == <<"2","2","'"," ","0","\"">>

\* provider fields that _create_output_row adds blank when they are absent
DefaultProviderFields ==
    {T_ProposedMetroNet, T_Verizon, T_ATT, T_Comcast, T_Zayo, T_JacksonISD}

\* the attachment, midspan, comm and power fields of the row
\* (All_Comm_Heights is always blank, so its parsing loop never runs)
_create_output_row(cfg, df, sec) ==
    Merge([k \in DefaultProviderFields |-> Blank], _process_attachments(cfg, df, sec))

\* locals of _process_attachments
process_trace(cfg, df, sec) ==
    [power_candidates |-> power_candidates(cfg, df),
     power_attachment |-> find_power_attachment(cfg, df),
     is_comm |-> [i \in 1..Len(df) |-> is_comm(cfg, df[i])],
     processed_attachments |-> processed_attachments(cfg, df, Len(df)),
     provider_heights |-> provider_heights(cfg, processed_attachments(cfg, df, Len(df))),
     provider_midspan_heights |->
         midspan_state(cfg, sec, Len(sec)).provider_midspan_heights,
     midspan_processed_by_provider |->
         midspan_groups_of(cfg, midspan_state(cfg, sec, Len(sec)).all_telecom_midspan),
     provider_midspan_heights_for_comm |-> provider_midspan_heights_for_comm(cfg, sec)]

(***************************************************************************)
(* Configurations, attachment sheets and section rows of the run.          *)
(***************************************************************************)
DefaultTelecomKeywords ==
    << [provider |-> T_ProposedMetroNet, keywords |-> <<T_ProposedMNT, T_MNT, T_MetroNet>>],
       [provider |-> T_Comcast, keywords |-> <<T_ComCast, T_Commcast, T_comcast>>],
       [provider |-> T_ATT, keywords |-> <<T_ATT, T_ATTplain, T_att>>],
       [provider |-> T_Lightower, keywords |-> <<T_lightower, T_Lightower>>],
       [provider |-> T_Kellogg, keywords |-> <<T_kellogg, T_Kellogg>>],
       [provider |-> T_MCI, keywords |-> <<T_mci, T_MCI>>],
       [provider |-> T_CATV, keywords |-> <<T_CATV>>],
       [provider |-> T_TelephoneCompany, keywords |-> <<T_telephonecompany, T_telco>>],
       [provider |-> T_Fiber, keywords |-> <<T_Fiber, T_fiber>>] >>

DefaultTelecomProviders == <<T_ProposedMetroNet, T_CATV, T_TelephoneCompany, T_Fiber>>

\* every provider and comm column mapped, or a template with fewer columns
MappingFull ==
    << <<T_ProposedMetroNet, T_AttachmentHt>>, <<T_ProposedMetroNet, T_MidspanHt>>,
       <<T_CATV, T_AttachmentHt>>, <<T_Fiber, T_MidspanHt>>,
       <<T_comm1, T_AttachmentHt>>, <<T_comm2, T_AttachmentHt>>,
       <<T_comm3, T_AttachmentHt>>, <<T_comm4, T_AttachmentHt>>,
       <<T_comm1, T_MidspanHt>>, <<T_comm2, T_MidspanHt>>,
       <<T_comm3, T_MidspanHt>>, <<T_comm4, T_MidspanHt>> >>
MappingPartial ==
    << <<T_comm1, T_AttachmentHt>>, <<T_comm3, T_AttachmentHt>>,
       <<T_comm2, T_MidspanHt>> >>

DefaultConfig ==
    [power_company |-> T_Xcel,
     proposed_company |-> T_Blank,
     telecom_keywords |-> DefaultTelecomKeywords,
     telecom_providers |-> DefaultTelecomProviders,
     power_keywords |-> <<T_Secondary, T_Neutral, T_SecondaryDripLoop, T_Riser>>,
     comm_keywords |-> <<T_telcocom, T_guy, T_catvStar>>,
     output_decimal |-> TRUE,
     mapping_data |-> MappingFull]

Row(c, m, h) == [company |-> c, measured |-> m, height_in_inches |-> h]
Pair(o, h) == [owner |-> o, height |-> h]

WithCfg(pcomp, prop, dec, mapping) ==
    [DefaultConfig EXCEPT !.power_company = pcomp, !.proposed_company = prop,
                          !.output_decimal = dec, !.mapping_data = mapping]
Pole(cfg, df, sec) == [config |-> cfg, attachment_data |-> df, section |-> sec]

\* poles with power rows: every company kind, the keyword kinds, the riser;
\* one row drawn from every combination, several rows from a selection
MaxPowerRows == 2
PowerCompanies == {T_Xcel, T_Blank, T_XcelInc}
PowerRowSet ==
    {Row(c, m, h) : c \in {T_Blank, T_XcelInc, T_Comcast},
                    m \in {T_Neutral, T_SecondaryDripLoop, T_Riser},
                    h \in {T_Blank, T_In0, T_In240, T_In300_5}}
PowerRowPicks ==
    {Row(T_Blank, T_Neutral, T_In300_5), Row(T_XcelInc, T_SecondaryDripLoop, T_In240),
     Row(T_Comcast, T_Neutral, T_In240), Row(T_XcelInc, T_Riser, T_In240),
     Row(T_Blank, T_Riser, T_In240), Row(T_XcelInc, T_Neutral, T_In0)}
PowerPoles ==
    {Pole(WithCfg(pcomp, T_Blank, TRUE, MappingFull), <<r>>, <<>>) :
        pcomp \in PowerCompanies, r \in PowerRowSet}
    \cup {Pole(WithCfg(pcomp, T_Blank, TRUE, MappingFull), df, <<>>) :
             pcomp \in PowerCompanies, df \in SeqsUpTo(PowerRowPicks, MaxPowerRows)}
    \cup {Pole(WithCfg(pcomp, T_Blank, dec, MappingFull), df,
               <<Pair(T_Neutral, T_Ft20_6)>>) :
             pcomp \in PowerCompanies, dec \in BOOLEAN,
             df \in SeqsUpTo(PowerRowPicks, MaxPowerRows - 1)}

\* poles with communication rows: blank, power, telecom and proposed companies
MaxCommRows == 2
ProposedCompanies == {T_Blank, T_MetroNet, T_ProposedZayo}
CommRowSet ==
    {Row(c, m, h) : c \in {T_Blank, T_XcelEnergy, T_Comcast, T_MetroNet, T_ZayoFiber},
                    m \in {T_TelcoCom, T_DownGuy, T_Guy, T_CATVCom},
                    h \in {T_In240, T_In252}}
CommRowPicks ==
    {Row(T_Blank, T_TelcoCom, T_In240), Row(T_Comcast, T_CATVCom, T_In252),
     Row(T_MetroNet, T_Guy, T_In240), Row(T_ZayoFiber, T_TelcoCom, T_In252),
     Row(T_XcelEnergy, T_DownGuy, T_In240), Row(T_Comcast, T_Guy, T_In240)}
CommPoles ==
    {Pole(WithCfg(T_Xcel, prop, TRUE, mapping), <<r>>, <<>>) :
        prop \in ProposedCompanies, mapping \in {MappingFull, MappingPartial},
        r \in CommRowSet}
    \cup {Pole(WithCfg(T_Xcel, prop, TRUE, MappingFull), df, <<>>) :
             prop \in ProposedCompanies, df \in SeqsUpTo(CommRowPicks, MaxCommRows)}

\* poles where one provider has several heights, below or above the power
MaxGroupRows == 3
GroupRowSet ==
    {Row(T_Comcast, T_TelcoCom, h) : h \in {T_In240, T_In270, T_In276, T_In300_5}}
    \cup {Row(T_XcelEnergy, T_Neutral, T_In252)}
GroupPoles ==
    {Pole(WithCfg(T_Xcel, T_Blank, dec, MappingFull), df, <<>>) :
        dec \in BOOLEAN, df \in SeqsUpTo(GroupRowSet, MaxGroupRows)}

\* poles and sections with more providers than comm fields
MaxProviders == 5
ProviderNames == <<T_Comcast, T_ATT, T_CATV, T_Fiber, T_TelephoneCompany, T_Lightower>>
ManyProviderPoles ==
    {Pole(WithCfg(T_Xcel, T_Blank, TRUE, mapping),
          [i \in 1..MaxProviders |-> Row(ProviderNames[i], T_TelcoCom, hs[i])], <<>>) :
        mapping \in {MappingFull, MappingPartial},
        hs \in [1..MaxProviders -> {T_In216, T_In240}]}
    \cup {Pole(WithCfg(T_Xcel, T_Blank, TRUE, mapping), <<>>,
               [i \in 1..MaxProviders |-> Pair(ProviderNames[i], hs[i])]) :
             mapping \in {MappingFull, MappingPartial},
             hs \in [1..MaxProviders -> {T_Ft20_6, T_Ft22}]}

\* sections: telecom, proposed-company and power owners, the height notations
MaxSectionPairs == 2
SectionPairSet ==
    {Pair(o, h) : o \in {T_Comcast, T_MetroNet, T_ZayoFiber, T_Neutral, T_Acme},
                  h \in {T_Ft20_6, T_Ft25, T_Ft18_5, T_Blank}}
SectionPairPicks ==
    {Pair(T_Comcast, T_Ft20_6), Pair(T_Comcast, T_Ft25), Pair(T_ZayoFiber, T_Ft18_5),
     Pair(T_Neutral, T_Ft20_6), Pair(T_Acme, T_Ft25), Pair(T_MetroNet, T_Ft20_6)}
SectionPoles ==
    {Pole(WithCfg(T_Xcel, prop, TRUE, MappingFull), <<>>, <<q>>) :
        prop \in {T_Blank, T_ProposedZayo}, q \in SectionPairSet}
    \cup {Pole(WithCfg(T_Xcel, prop, TRUE, MappingFull), <<>>, sec) :
             prop \in {T_Blank, T_ProposedZayo},
             sec \in SeqsUpTo(SectionPairPicks, MaxSectionPairs)}

Poles == PowerPoles \cup CommPoles \cup GroupPoles \cup ManyProviderPoles \cup SectionPoles

InitRow ==
    /\ pc = "pole_ready"
    /\ \E p \in Poles :
          /\ config = p.config
          /\ attachment_data = p.attachment_data
          /\ section = p.section
    /\ scid = Unset
    /\ ignore_keywords = Unset
    /\ normalized = Unset
    /\ renormalized = Unset
    /\ trace = Unset
    /\ result = Unset
    /\ span = Unset
    /\ run = Unset
    /\ result_data = Unset
    /\ workbook = Unset
    /\ key = Unset
    /\ audit = Unset
    /\ app = Unset

\* _create_output_row for one connection of the pole: _process_attachments
\* reads the attachment sheet and the section row and returns the fields
CreateOutputRow ==
    /\ pc = "pole_ready"
    /\ trace' = process_trace(config, attachment_data, section)
    /\ result' = _create_output_row(config, attachment_data, section)
    /\ pc' = "row_done"
    /\ UNCHANGED <<scid, ignore_keywords, normalized, renormalized,
                   config, attachment_data, section, span, run, result_data,
                   workbook, key, audit, app>>

NextRow == CreateOutputRow

SpecRow == InitRow /\ [][NextRow]_vars

(***************************************************************************)
(* The power attachment of a row.                                          *)
(***************************************************************************)
Done == pc = "row_done"
RowIds == 1..Len(attachment_data)
MeasuredOf(i) == Lower(Strip(attachment_data[i].measured))
CompanyOf(i) == Lower(Strip(attachment_data[i].company))
HeightOf(i) == ToNumeric(RemoveQuotes(attachment_data[i].height_in_inches))
\* the height as the row shows it: whole inches as feet and inches, in the
\* configured notation
ShownHeight(tenths) ==
    format_height_for_output(config, inches_to_feet_format(tenths \div 10))

\* the configured power keyword a row is matched to: the longest keyword its
\* measured text contains, the earliest of equally long ones
MatchedKeyword(i) ==
    LET kws == config.power_keywords
        Norm(k) == Lower(Strip(kws[k]))
        K == {k \in 1..Len(kws) : Norm(k) # <<>> /\ Contains(MeasuredOf(i), Norm(k))}
    IN IF K = {} THEN None
       ELSE kws[CHOOSE k \in K :
                   \A j \in K : \/ Len(Norm(k)) > Len(Norm(j))
                                \/ (Len(Norm(k)) = Len(Norm(j)) /\ k <= j)]
RiserLike(kw) == Contains(Lower(kw), T_riser)
MatchesPowerCompany(i) == company_matches_power(config, attachment_data[i])

\* rows with a power keyword that pass the riser gate and have a parseable
\* height greater than zero, of a blank or power company (of any company
\* when anyCompany holds)
PowerRows(anyCompany) ==
    {i \in RowIds :
        /\ anyCompany \/ CompanyOf(i) = <<>> \/ MatchesPowerCompany(i)
        /\ MatchedKeyword(i) # None
        /\ RiserLike(MatchedKeyword(i)) => MatchesPowerCompany(i)
        /\ HeightOf(i) # NaN
        /\ HeightOf(i) > 0}

\* the selected attachment is the lowest row of C and fills the two fields
SelectsLowestOf(C) ==
    /\ C # {} => trace.power_attachment # NoAttachment
    /\ trace.power_attachment # NoAttachment =>
          LET m == trace.power_attachment.row
          IN /\ m \in C
             /\ \A j \in C : HeightOf(m) <= HeightOf(j)
             /\ result[T_PowerHeight] = ShownHeight(HeightOf(m))
             /\ result[T_PowerType] = MatchedKeyword(m)

C4_RiserGate ==
    Done =>
        \A i \in RowIds :
            /\ (i \in trace.power_candidates /\ RiserLike(MatchedKeyword(i)))
                   => MatchesPowerCompany(i)
            /\ (CompanyOf(i) = <<>> /\ MeasuredOf(i) = T_riser)
                   => i \notin trace.power_candidates
            /\ (/\ PowerCompany(config) # <<>>
                /\ CompanyOf(i) = PowerCompany(config)
                /\ MeasuredOf(i) = T_riser
                /\ \E k \in 1..Len(config.power_keywords) :
                      Lower(Strip(config.power_keywords[k])) = T_riser)
                   => i \in trace.power_candidates

\* a section pair that names a power keyword and has a parseable height
PowerMidspanPairs ==
    {n \in 1..Len(section) :
        /\ \E k \in 1..Len(config.power_keywords) :
              Contains(Lower(section[n].owner), Lower(config.power_keywords[k]))
        /\ parse_height_decimal(section[n].height) # NoneHeight}

PowerFields == {T_PowerHeight, T_PowerType, T_PowerMidspan}

CommSlots == 1..MaxCommFields
\* the greatest decimal height of a list of (decimal, formatted) entries
MaxHeight(entries) == MaxOf([i \in 1..Len(entries) |-> entries[i][1]])
GroupOf(groups, provider) ==
    groups[CHOOSE i \in 1..Len(groups) : groups[i].provider = provider]
HasGroup(groups, provider) == \E i \in 1..Len(groups) : groups[i].provider = provider

\* ranked lists the groups highest first, each with its greatest height
RankedHighestFirst(ranked, groups) ==
    /\ \A k \in 1..Len(ranked) :
          /\ HasGroup(groups, ranked[k][2])
          /\ ranked[k][1] = MaxHeight(GroupOf(groups, ranked[k][2]).heights)
    /\ \A k, l \in 1..Len(ranked) : k < l => ranked[k][2] # ranked[l][2]
    /\ \A k \in 1..(Len(ranked) - 1) : ranked[k][1] >= ranked[k + 1][1]

CombinedOf(combined, entries) ==
    LET Dec(f) == MaxHeight(SelectSeq(entries, LAMBDA e : e[2] = f))
    IN /\ \A e \in SeqToSet(entries) : \E i \in 1..Len(combined) : combined[i] = e[2]
       /\ \A i \in 1..Len(combined) : \E e \in SeqToSet(entries) : combined[i] = e[2]
       /\ \A i, j \in 1..Len(combined) :
             i < j => combined[i] # combined[j] /\ Dec(combined[i]) >= Dec(combined[j])

ThreeHeights ==
    << Row(T_Comcast, T_TelcoCom, T_In270), Row(T_Comcast, T_TelcoCom, T_In270),
       Row(T_Comcast, T_TelcoCom, T_In276) >>

MatchesCommKeyword(i) ==
    \E k \in 1..Len(config.comm_keywords) :
        LET kw == Lower(Strip(config.comm_keywords[k]))
        IN IF kw # T_guy /\ kw # <<>> /\ kw[Len(kw)] = "*"
           THEN Contains(MeasuredOf(i), SubSeq(kw, 1, Len(kw) - 1))
           ELSE MeasuredOf(i) = kw

\* the company text names the proposed company or one of its synonyms
NamesProposedCompany(text) ==
    \E kw \in get_proposed_company_keywords(config) : Contains(Lower(text), kw)
\* the company text names the configured power company
NamesPowerCompany(text) ==
    PowerCompany(config) # <<>> /\ Contains(Lower(text), PowerCompany(config))
\* the company text names the configured proposed company
NamesConfiguredProposed(text) ==
    ProposedCompany(config) # <<>> /\ Contains(Lower(text), ProposedCompany(config))

PositiveHeight(i) == HeightOf(i) # NaN /\ HeightOf(i) > 0

\* the rows whose heights the group of a provider holds
RowsOfGroup(provider) ==
    {i \in RowIds : /\ trace.is_comm[i]
                    /\ PositiveHeight(i)
                    /\ row_provider(config, attachment_data[i]) = provider}
\* the section pairs whose heights the midspan group of a provider holds
PairsOfGroup(provider) ==
    {n \in 1..Len(section) :
        /\ match_telecom_provider(config, section[n].owner) = provider
        /\ ~match_metronet(config, section[n].owner)
        /\ parse_height_decimal(section[n].height) # NoneHeight
        /\ parse_height_format(section[n].height) # Blank}

\* C8 as stated: no height of the proposed company, or of one of its
\* synonyms, is placed in comm1..comm4 or comm1_Midspan..comm4_Midspan.
C8_ProposedExcluded ==
    Done =>
        /\ \A k \in 1..Min(MaxCommFields, Len(trace.provider_heights)) :
              \A i \in RowsOfGroup(trace.provider_heights[k][2]) :
                  ~NamesProposedCompany(attachment_data[i].company)
        /\ \A k \in 1..Min(MaxCommFields, Len(trace.provider_midspan_heights_for_comm)) :
              \A n \in PairsOfGroup(trace.provider_midspan_heights_for_comm[k][2]) :
                  ~NamesProposedCompany(section[n].owner)

\* the heights of a comma-joined cell
CellHeights(cell) == SeqToSet(cell)

\* C9 as stated: when the proposed company's own field is mapped, every
\* communication-keyword row of the proposed company with a positive
\* parseable height contributes its height to that field.
C9_ProposedField ==
    (Done /\ T_ProposedMetroNet \in _get_mapped_elements(config).providers) =>
        \A i \in RowIds :
            (/\ MatchesCommKeyword(i)
             /\ NamesProposedCompany(attachment_data[i].company)
             /\ ~NamesPowerCompany(attachment_data[i].company)
             /\ PositiveHeight(i))
                => ShownHeight(HeightOf(i)) \in CellHeights(result[T_ProposedMetroNet])

S_100 == <<"1","0","0">>
S_102 == <<"1","0","2">>
S_103 == <<"1","0","3">>
S_103_1 == <<"1","0","3",".","1">>
S_110 == <<"1","1","0">>
S_97 == <<"9","7">>
S_100ft == <<"1","0","0","'">>
S_1200c == <<"1",",","2","0","0">>
S_1202 == <<"1","2","0","2">>
S_abc == <<"a","b","c">>
SpanInputs == {None, Blank, S_100, S_102, S_103, S_103_1, S_110, S_97,
               S_100ft, S_1200c, S_1202, S_abc}
\* processing_options.span_length_tolerance, in feet (the default is 3)
DefaultTolerance == 3
Tolerances == {0, DefaultTolerance, 5}

\* Python truthiness of an optional text
Truthy(x) == x # None /\ x # Blank
\* excel_span or qc_span
PyOr(a, b) == IF Truthy(a) THEN a ELSE b

\* str(x).replace(',', '').replace("'", '').strip()
span_clean(x) == Strip(SelectSeq(x, LAMBDA c : c # "," /\ c # "'"))
\* float(clean) in tenths of a foot; NaN where float() raises ValueError
span_value(x) == ToNumeric(span_clean(x))
AbsDiff(a, b) == IF a >= b THEN a - b ELSE b - a

_apply_span_length_tolerance_ExcelAlways(excel_span, qc_span, tolerance) ==
    PyOr(excel_span, qc_span)
_apply_span_length_tolerance(excel_span, qc_span, tolerance) ==
    IF ~Truthy(qc_span) \/ ~Truthy(excel_span) THEN PyOr(excel_span, qc_span)
    ELSE IF span_value(excel_span) = NaN \/ span_value(qc_span) = NaN
    THEN PyOr(excel_span, qc_span)
    ELSE IF AbsDiff(span_value(excel_span), span_value(qc_span)) <= 10 * tolerance
    THEN qc_span
    ELSE excel_span

InitTol ==
    /\ pc = "tol_ready"
    /\ span \in [excel_span : SpanInputs, qc_span : SpanInputs,
                 tolerance : Tolerances, final : {Unset}]
    /\ scid = Unset
    /\ ignore_keywords = Unset
    /\ normalized = Unset
    /\ renormalized = Unset
    /\ config = Unset
    /\ attachment_data = Unset
    /\ section = Unset
    /\ trace = Unset
    /\ result = Unset
    /\ run = Unset
    /\ result_data = Unset
    /\ workbook = Unset
    /\ key = Unset
    /\ audit = Unset
    /\ app = Unset

\* one call of _apply_span_length_tolerance(excel_span, qc_span, tolerance)
ApplySpanLengthTolerance ==
    /\ pc = "tol_ready"
    /\ span' = [span EXCEPT !.final =
                   _apply_span_length_tolerance(span.excel_span, span.qc_span,
                                                span.tolerance)]
    /\ pc' = "tol_done"
    /\ UNCHANGED <<scid, ignore_keywords, normalized, renormalized, config,
                   attachment_data, section, trace, result, run, result_data,
                   workbook, key, audit, app>>

NextTol == ApplySpanLengthTolerance

SpecTol == InitTol /\ [][NextTol]_vars

TolDone == pc = "tol_done"
BothNumeric == /\ Truthy(span.excel_span) /\ Truthy(span.qc_span)
               /\ span_value(span.excel_span) # NaN
               /\ span_value(span.qc_span) # NaN
WithinTolerance ==
    AbsDiff(span_value(span.excel_span), span_value(span.qc_span))
        <= 10 * span.tolerance

\* C12: the tolerance function returns the QC span when both spans are
\* numeric and differ by at most the tolerance, the Excel span when they
\* differ by more, the one that is present when exactly one is, and a blank
\* when neither is.
C12_ToleranceFunction ==
    TolDone =>
        /\ BothNumeric /\ WithinTolerance => span.final = span.qc_span
        /\ BothNumeric /\ ~WithinTolerance => span.final = span.excel_span
        /\ Truthy(span.excel_span) /\ ~Truthy(span.qc_span)
              => span.final = span.excel_span
        /\ ~Truthy(span.excel_span) /\ Truthy(span.qc_span)
              => span.final = span.qc_span
        /\ ~Truthy(span.excel_span) /\ ~Truthy(span.qc_span)
              => ~Truthy(span.final)
        /\ span.excel_span = S_100 /\ span.qc_span = S_110 /\ span.tolerance = 3
              => span.final = S_100
        /\ span.excel_span = None /\ span.qc_span = S_102 => span.final = S_102
C12_Witness ==
    /\ TolDone
    /\ span.excel_span = S_100 /\ span.qc_span = S_102 /\ span.tolerance = 3
    /\ span.final = S_102

(***************************************************************************)
(* One processing run: process_data over the nodes, connections and        *)
(* sections sheets, the template pairs and the QC source, then the passes  *)
(* of write_output over the rows.                                          *)
(***************************************************************************)
T_Pole == <<"P","o","l","e">>
T_ToPole == <<"T","o"," ","P","o","l","e">>
T_SpanLength == <<"S","p","a","n"," ","L","e","n","g","t","h">>
T_excel_row == <<"_","e","x","c","e","l","_","r","o","w">>
T_LineNo == <<"L","i","n","e"," ","N","o",".">>
T_Notes == <<"N","o","t","e","s">>
T_connection_id == <<"c","o","n","n","e","c","t","i","o","n","_","i","d">>
T_span_distance == <<"s","p","a","n","_","d","i","s","t","a","n","c","e">>
T_END == <<"E","N","D">>
T_NA == <<"N","/","A">>
T_nan == <<"n","a","n">>
T_MidspanWord == <<"M","i","d","s","p","a","n">>
T_QCLimited == <<"Q","C"," ","l","i","m","i","t","e","d">>

\* config.get('ignore_scid_keywords', []) of the run
RunIgnoreKeywords == <<>>
\* the configuration the attachment fields of a row are computed under
RunConfig == WithCfg(T_Xcel, T_Blank, TRUE, MappingFull)

Node(id, s, t, st) == [node_id |-> id, scid |-> s, node_type |-> t, pole_status |-> st]
Conn(cid, n1, n2, sp) ==
    [connection_id |-> cid, node_id_1 |-> n1, node_id_2 |-> n2, span_distance |-> sp]
Sec(cid, pairs) == [connection_id |-> cid, pairs |-> pairs]
QCConn(p, t, sp) == [pole |-> p, to_pole |-> t, span |-> sp]

\* _is_end_marker(value)
_is_end_marker(value) == value # None /\ Upper(Strip(value)) = T_END

_apply_end_marker_SpanOnly(row_data) ==
    IF ~_is_end_marker(IF T_ToPole \in DOMAIN row_data THEN row_data[T_ToPole] ELSE Blank)
    THEN row_data
    ELSE [k \in (DOMAIN row_data) \cup {T_SpanLength} |->
             IF k = T_SpanLength THEN T_END ELSE row_data[k]]
\* _apply_end_marker(row_data): an END row keeps END in the span and in
\* every field whose key contains 'Midspan'
_apply_end_marker(row_data) ==
    IF ~_is_end_marker(IF T_ToPole \in DOMAIN row_data THEN row_data[T_ToPole] ELSE Blank)
    THEN row_data
    ELSE [k \in (DOMAIN row_data) \cup {T_SpanLength} |->
             IF k = T_SpanLength \/ Contains(k, T_MidspanWord) THEN T_END
             ELSE row_data[k]]

\* _format_span_distance(span_distance): rounded feet with a tick, the text
\* itself where float() raises
_format_span_distance(span_distance) ==
    IF ~Truthy(span_distance) THEN Blank
    ELSE IF ToNumeric(Strip(span_distance)) = NaN THEN span_distance
    ELSE IF ToNumeric(Strip(span_distance)) < 0
    THEN <<"-">> \o Numeral(RoundHalfEven(0 - ToNumeric(Strip(span_distance)), 10)) \o <<"'">>
    ELSE Numeral(RoundHalfEven(ToNumeric(Strip(span_distance)), 10)) \o <<"'">>

\* nodes_df['scid'].apply(normalize_scid) (process_data 531-533)
normalize_nodes(nodes) ==
    [i \in 1..Len(nodes) |->
        [nodes[i] EXCEPT !.scid = normalize_scid(@, RunIgnoreKeywords)]]
\* nodes_df.drop_duplicates(subset='scid'): the first row of every scid
RECURSIVE drop_duplicates(_, _)
drop_duplicates(nodes, n) ==
    IF n = 0 THEN <<>>
    ELSE IF \E j \in 1..(n - 1) : nodes[j].scid = nodes[n].scid
    THEN drop_duplicates(nodes, n - 1)
    ELSE Append(drop_duplicates(nodes, n - 1), nodes[n])
\* the nodes table the mappings are built from
run_nodes(nodes) == drop_duplicates(normalize_nodes(nodes), Len(nodes))
\* Utils.filter_valid_nodes
filter_valid_nodes(nodes) ==
    SelectSeq(nodes, LAMBDA nd : /\ nd.node_type \in {"pole", "reference"}
                                 /\ nd.pole_status # "underground")

\* mappings['node_id_to_scid'] and mappings['scid_to_row'] of _create_mappings
HasNodeId(nodes, id) == \E i \in 1..Len(nodes) : nodes[i].node_id = id
node_id_to_scid(nodes, id) ==
    nodes[CHOOSE i \in 1..Len(nodes) : nodes[i].node_id = id].scid
HasScid(nodes, s) == \E i \in 1..Len(nodes) : nodes[i].scid = s
scid_to_row(nodes, s) == nodes[CHOOSE i \in 1..Len(nodes) : nodes[i].scid = s]

\* the pair test of _find_connection_data (475-481)
conn_matches(nodes, conn, pole_scid, to_pole_scid) ==
    /\ HasNodeId(nodes, conn.node_id_1)
    /\ HasNodeId(nodes, conn.node_id_2)
    /\ \/ /\ node_id_to_scid(nodes, conn.node_id_1) = pole_scid
          /\ node_id_to_scid(nodes, conn.node_id_2) = to_pole_scid
       \/ /\ node_id_to_scid(nodes, conn.node_id_1) = to_pole_scid
          /\ node_id_to_scid(nodes, conn.node_id_2) = pole_scid
\* conn_info of a connection row, and the None of a pair without one
NoConn == [connection_id |-> Blank, span_distance |-> Blank, found |-> FALSE]
Found(conn) == [connection_id |-> conn.connection_id,
                span_distance |-> conn.span_distance, found |-> TRUE]
\* _find_connection_data without a span map: the first matching row
_find_connection_data(pole_scid, to_pole_scid, connections, nodes) ==
    IF \E i \in 1..Len(connections) :
           conn_matches(nodes, connections[i], pole_scid, to_pole_scid)
    THEN Found(connections[
             CHOOSE i \in 1..Len(connections) :
                /\ conn_matches(nodes, connections[i], pole_scid, to_pole_scid)
                /\ \A j \in 1..(i - 1) :
                      ~conn_matches(nodes, connections[j], pole_scid, to_pole_scid)])
    ELSE NoConn

\* the lowest parseable height of a section row (_find_section 1398-1413)
Inf == 1000000
height_or_inf(h) == IF h = NoneHeight THEN Inf ELSE h
Min2(a, b) == IF b < a THEN b ELSE a
RECURSIVE section_min_height(_, _)
section_min_height(pairs, n) ==
    IF n = 0 THEN Inf
    ELSE Min2(section_min_height(pairs, n - 1),
              height_or_inf(parse_height_decimal(pairs[n].height)))
section_rows(connection_id, sections) ==
    SelectSeq(sections, LAMBDA s : s.connection_id = connection_id)
min_heights(matching) ==
    [i \in 1..Len(matching) |->
        section_min_height(matching[i].pairs, Len(matching[i].pairs))]
\* min_heights.index(min(min_heights))
min_idx(heights) ==
    CHOOSE i \in 1..Len(heights) :
        /\ \A j \in 1..Len(heights) : heights[i] <= heights[j]
        /\ \A j \in 1..(i - 1) : heights[j] # heights[i]
section_of(matching) ==
    IF matching = <<>> THEN <<>> ELSE matching[min_idx(min_heights(matching))].pairs
\* _find_section(connection_id, sections_df): the pairs of the section row,
\* an empty Series where no row matches
_find_section(connection_id, sections) ==
    section_of(section_rows(connection_id, sections))

\* the QC source of the run: whether it is active, and its declared
\* connections in order, each with the original text of its Pole and To Pole
\* cells and its span
qc_is_active(qc) == qc.active
get_original_ordered_connections(qc) ==
    [i \in 1..Len(qc.connections) |-> <<qc.connections[i].pole, qc.connections[i].to_pole>>]
get_ordered_connections(qc) ==
    [i \in 1..Len(qc.connections) |->
        <<normalize_scid(qc.connections[i].pole, RunIgnoreKeywords),
          normalize_scid(qc.connections[i].to_pole, RunIgnoreKeywords)>>]
qc_declares(c, pole, to_pole) ==
    /\ normalize_scid(c.pole, RunIgnoreKeywords) = normalize_scid(pole, RunIgnoreKeywords)
    /\ normalize_scid(c.to_pole, RunIgnoreKeywords) = normalize_scid(to_pole, RunIgnoreKeywords)
\* the span the QC source declares for the connection, blank where it
\* declares none
get_qc_span_length(qc, pole, to_pole) ==
    IF \E i \in 1..Len(qc.connections) : qc_declares(qc.connections[i], pole, to_pole)
    THEN qc.connections[CHOOSE i \in 1..Len(qc.connections) :
            /\ qc_declares(qc.connections[i], pole, to_pole)
            /\ \A j \in 1..(i - 1) : ~qc_declares(qc.connections[j], pole, to_pole)].span
    ELSE Blank

\* to_pole_type == 'reference' (_create_output_row 1166-1169)
is_pole_to_reference(nodes, to_pole_scid) ==
    HasScid(nodes, to_pole_scid) /\ scid_to_row(nodes, to_pole_scid).node_type = "reference"

\* _process_attachments(node, section, mapped_elements, scid,
\* is_pole_to_reference) of a pole without an attachment sheet: the flag is
\* read by the log messages only
_process_attachments_skip_reference(sec, is_ref) ==
    _create_output_row(RunConfig, <<>>, IF is_ref THEN <<>> ELSE sec)
process_attachments_of(sec, is_ref) == _create_output_row(RunConfig, <<>>, sec)

\* final_span_str of _create_output_row (1198-1207)
final_span_str(qc, tolerance, pole_scid, to_pole_scid, initial_span_distance) ==
    IF qc_is_active(qc)
    THEN _apply_span_length_tolerance(initial_span_distance,
             get_qc_span_length(qc, pole_scid, to_pole_scid), tolerance)
    ELSE initial_span_distance

\* the call of _process_attachments of a row: over the section of the
\* connection (_create_output_row 1172-1189), over an empty section with the
\* flag set for a pole-only row (_create_pole_only_row 421-427)
row_attachments(conn_info, nodes, sections, to_pole_scid) ==
    process_attachments_of(
        IF conn_info.found THEN _find_section(conn_info.connection_id, sections)
        ELSE <<>>,
        IF conn_info.found THEN is_pole_to_reference(nodes, to_pole_scid) ELSE TRUE)
qc_row_attachments(conn_info, nodes, sections, to_pole_scid) ==
    process_attachments_of(_find_section(conn_info.connection_id, sections),
                           is_pole_to_reference(nodes, to_pole_scid))

\* _create_output_row for a connection, given the result of
\* _process_attachments: no row (<<>>) for a blank identifier or an END
\* marker, else the one row in a sequence
create_output_row(attachment_result, pole_scid, to_pole_scid, conn_info, qc, tolerance) ==
    IF \/ Strip(pole_scid) = Blank \/ Strip(to_pole_scid) = Blank
       \/ _is_end_marker(to_pole_scid)
    THEN <<>>
    ELSE << Merge(attachment_result,
                  (T_Pole :> pole_scid) @@ (T_ToPole :> to_pole_scid)
                  @@ (T_SpanLength :> _format_span_distance(
                          final_span_str(qc, tolerance, pole_scid, to_pole_scid,
                                         conn_info.span_distance)))
                  @@ (T_LineNo :> Blank) @@ (T_Notes :> Blank)) >>

\* _create_pole_only_row, given the result of _process_attachments: the
\* fields of the pole and no connection fields
_create_pole_only_row(attachment_result, pole_scid, to_pole_scid) ==
    << Merge(attachment_result,
             (T_Pole :> pole_scid) @@ (T_ToPole :> to_pole_scid)
             @@ (T_Notes :> Blank)) >>

\* is_invalid_connection of the template loops (291-297, 361-367)
is_invalid_connection(to_pole_scid) ==
    \/ ~Truthy(to_pole_scid)
    \/ _is_end_marker(to_pole_scid)
    \/ Upper(to_pole_scid) = T_NA
    \/ to_pole_scid = T_nan
    \/ Strip(to_pole_scid) = Blank

template_conn_info(pole_norm, to_pole_norm, to_pole_scid, connections, nodes) ==
    IF is_invalid_connection(to_pole_scid) THEN NoConn
    ELSE _find_connection_data(pole_norm, to_pole_norm, connections, nodes)

\* the row a template loop creates before it restores the template text
row_or_pole_only(attachment_result, pole_norm, to_pole_norm, info, qc, tolerance) ==
    IF info.found
    THEN create_output_row(attachment_result, pole_norm, to_pole_norm, info, qc, tolerance)
    ELSE _create_pole_only_row(attachment_result, pole_norm, to_pole_norm)
template_row_data(pole_norm, to_pole_norm, info, nodes, sections, qc, tolerance) ==
    row_or_pole_only(row_attachments(info, nodes, sections, to_pole_norm),
                     pole_norm, to_pole_norm, info, qc, tolerance)

\* the Pole, To Pole and _excel_row a template loop puts on the row
template_finish(rows, pole_scid, to_pole_scid, excel_row) ==
    [i \in 1..Len(rows) |->
        Merge(_apply_end_marker(Merge(rows[i],
                  (T_Pole :> pole_scid) @@ (T_ToPole :> to_pole_scid))),
              (T_excel_row :> excel_row))]

\* one turn of the loop of _process_multi_sheet_template_connections
\* (282-336): no row where the Pole is not a node of the nodes sheet
template_pair_rows(t, connections, nodes, sections, qc, tolerance) ==
    IF ~HasScid(nodes, normalize_scid(t[1], RunIgnoreKeywords)) THEN <<>>
    ELSE template_finish(
             template_row_data(
                 normalize_scid(t[1], RunIgnoreKeywords),
                 normalize_scid(t[2], RunIgnoreKeywords),
                 template_conn_info(normalize_scid(t[1], RunIgnoreKeywords),
                                    normalize_scid(t[2], RunIgnoreKeywords),
                                    t[2], connections, nodes),
                 nodes, sections, qc, tolerance),
             t[1], t[2], t[3])

\* all_template_scids: the pairs of every sheet, in sheet order
RECURSIVE all_template_scids(_, _)
all_template_scids(sheets, n) ==
    IF n = 0 THEN <<>> ELSE all_template_scids(sheets, n - 1) \o sheets[n]
\* self.template_scids: the first sheet's pairs (read_template_scids 118-123)
template_scids(sheets) == IF sheets # <<>> THEN sheets[1] ELSE <<>>

RECURSIVE template_rows(_, _, _, _, _, _, _)
template_rows(pairs, n, connections, nodes, sections, qc, tolerance) ==
    IF n = 0 THEN <<>>
    ELSE template_rows(pairs, n - 1, connections, nodes, sections, qc, tolerance)
         \o template_pair_rows(pairs[n], connections, nodes, sections, qc, tolerance)
\* the loop the two template functions share, over their list of pairs
template_loop(pairs, connections, nodes, sections, qc, tolerance) ==
    template_rows(pairs, Len(pairs), connections, nodes, sections, qc, tolerance)

\* the pairs of the template branch process_data takes (604-609): every
\* sheet's pairs where sheets were read, else self.template_scids
template_pairs(sheets) ==
    IF sheets # <<>> THEN all_template_scids(sheets, Len(sheets))
    ELSE template_scids(sheets)
\* _process_multi_sheet_template_connections and
\* _process_template_based_connections: the same loop over their pairs
_process_template_connections(sheets, connections, nodes, sections, qc, tolerance) ==
    template_loop(template_pairs(sheets), connections, nodes, sections, qc, tolerance)

\* connection_lookup[key] of _process_qc_filtered_connections (3077-3095): a
\* later row of the same pair replaces the entry of an earlier one
connection_lookup(pole_norm, to_pole_norm, connections, nodes) ==
    IF \E i \in 1..Len(connections) :
           conn_matches(nodes, connections[i], pole_norm, to_pole_norm)
    THEN Found(connections[
             CHOOSE i \in 1..Len(connections) :
                /\ conn_matches(nodes, connections[i], pole_norm, to_pole_norm)
                /\ \A j \in (i + 1)..Len(connections) :
                      ~conn_matches(nodes, connections[j], pole_norm, to_pole_norm)])
    ELSE NoConn

\* mappings['node_id_to_scid'].get(n, n)
scid_or_id(nodes, id) == IF HasNodeId(nodes, id) THEN node_id_to_scid(nodes, id) ELSE id
\* the pair test of the span scan (3117-3120)
scan_matches(nodes, conn, pole_norm, to_pole_norm) ==
    \/ /\ scid_or_id(nodes, conn.node_id_1) = pole_norm
       /\ scid_or_id(nodes, conn.node_id_2) = to_pole_norm
    \/ /\ scid_or_id(nodes, conn.node_id_1) = to_pole_norm
       /\ scid_or_id(nodes, conn.node_id_2) = pole_norm
    \/ conn.node_id_1 = pole_norm /\ conn.node_id_2 = to_pole_norm
    \/ conn.node_id_1 = to_pole_norm /\ conn.node_id_2 = pole_norm
\* the span the scan ends with: the first matching row with a span
scan_span(pole_norm, to_pole_norm, connections, nodes) ==
    IF \E i \in 1..Len(connections) :
           /\ scan_matches(nodes, connections[i], pole_norm, to_pole_norm)
           /\ Truthy(connections[i].span_distance)
    THEN connections[CHOOSE i \in 1..Len(connections) :
            /\ scan_matches(nodes, connections[i], pole_norm, to_pole_norm)
            /\ Truthy(connections[i].span_distance)
            /\ \A j \in 1..(i - 1) :
                  ~(/\ scan_matches(nodes, connections[j], pole_norm, to_pole_norm)
                    /\ Truthy(connections[j].span_distance))].span_distance
    ELSE Blank
\* conn_info of a QC connection (3098-3131)
qc_conn_info(pole_norm, to_pole_norm, connections, nodes) ==
    IF connection_lookup(pole_norm, to_pole_norm, connections, nodes).found
    THEN connection_lookup(pole_norm, to_pole_norm, connections, nodes)
    ELSE [connection_id |-> Blank,
          span_distance |-> scan_span(pole_norm, to_pole_norm, connections, nodes),
          found |-> FALSE]

\* the tolerance pass of _create_qc_output_row over the formatted span of
\* the row (3197-3211)
qc_row_span(row, qc, tolerance, pole_orig, to_pole_orig) ==
    IF Truthy(get_qc_span_length(qc, pole_orig, to_pole_orig))
    THEN [row EXCEPT ![T_SpanLength] =
             _apply_span_length_tolerance(row[T_SpanLength],
                 get_qc_span_length(qc, pole_orig, to_pole_orig), tolerance)]
    ELSE row
\* the minimal row of _create_qc_output_row (3222-3254)
qc_minimal_row(pole_orig, to_pole_orig, conn_info) ==
    (T_Pole :> pole_orig) @@ (T_ToPole :> to_pole_orig) @@ (T_LineNo :> Blank)
    @@ (T_SpanLength :> _format_span_distance(conn_info.span_distance))
    @@ (T_PowerHeight :> Blank) @@ (T_PowerMidspan :> Blank)
    @@ (T_comm1 :> Blank) @@ (T_comm2 :> Blank) @@ (T_comm3 :> Blank)
    @@ (T_comm4 :> Blank) @@ (T_Notes :> T_QCLimited)
\* the minimal row of _process_qc_filtered_connections (3163-3178)
minimal_row(pole_orig, to_pole_orig, conn_info) ==
    (T_Pole :> pole_orig) @@ (T_ToPole :> to_pole_orig) @@ (T_LineNo :> Blank)
    @@ (T_SpanLength :> conn_info.span_distance)
    @@ (T_PowerHeight :> Blank) @@ (T_Notes :> T_QCLimited)

\* _create_qc_output_row, given the rows of _create_output_row
qc_output_row(rows, pole_orig, to_pole_orig, conn_info, qc, tolerance) ==
    IF rows # <<>>
    THEN << qc_row_span(Merge(rows[1], (T_Pole :> pole_orig) @@ (T_ToPole :> to_pole_orig)),
                        qc, tolerance, pole_orig, to_pole_orig) >>
    ELSE IF Strip(pole_orig) = Blank \/ Strip(to_pole_orig) = Blank THEN <<>>
    ELSE << qc_minimal_row(pole_orig, to_pole_orig, conn_info) >>
_create_qc_output_row(pole_orig, to_pole_orig, pole_norm, to_pole_norm, conn_info, nodes, sections, qc, tolerance) ==
    qc_output_row(create_output_row(
                      qc_row_attachments(conn_info, nodes, sections, to_pole_norm),
                      pole_norm, to_pole_norm, conn_info, qc, tolerance),
                  pole_orig, to_pole_orig, conn_info, qc, tolerance)

\* the row the loop appends for one QC connection (3147-3181)
qc_appended(rows, pole_orig, to_pole_orig, conn_info) ==
    IF rows # <<>> THEN _apply_end_marker(rows[1])
    ELSE _apply_end_marker(minimal_row(pole_orig, to_pole_orig, conn_info))
qc_connection_row(c, connections, nodes, sections, qc, tolerance) ==
    qc_appended(
        _create_qc_output_row(c.pole, c.to_pole,
            normalize_scid(c.pole, RunIgnoreKeywords),
            normalize_scid(c.to_pole, RunIgnoreKeywords),
            qc_conn_info(normalize_scid(c.pole, RunIgnoreKeywords),
                         normalize_scid(c.to_pole, RunIgnoreKeywords),
                         connections, nodes),
            nodes, sections, qc, tolerance),
        c.pole, c.to_pole,
        qc_conn_info(normalize_scid(c.pole, RunIgnoreKeywords),
                     normalize_scid(c.to_pole, RunIgnoreKeywords),
                     connections, nodes))
_process_qc_filtered_connections(connections, nodes, sections, qc, tolerance) ==
    [i \in 1..Len(qc.connections) |->
        qc_connection_row(qc.connections[i], connections, nodes, sections, qc, tolerance)]

\* _process_template_only_connections: rows from the template text alone;
\* with `mappings = []` the first connection row makes _find_connection_data
\* raise TypeError, so rows come back only over an empty connections sheet
template_only_raises(sheets, connections) ==
    all_template_scids(sheets, Len(sheets)) # <<>> /\ connections # <<>>
template_only_row(t) ==
    _apply_end_marker((T_Pole :> t[1]) @@ (T_ToPole :> t[2])
                      @@ (T_excel_row :> t[3]) @@ (T_LineNo :> Blank))
_process_template_only_connections(sheets) ==
    [i \in 1..Len(all_template_scids(sheets, Len(sheets))) |->
        template_only_row(all_template_scids(sheets, Len(sheets))[i])]

\* Utils.extract_numeric_part: (number, letters), (inf, '') without digits
extract_numeric_part(s) ==
    IF RunLen(s, DigitChars) = 0 THEN <<Inf, <<>>>>
    ELSE << Value(Take(s, RunLen(s, DigitChars))),
            Take(Drop(s, RunLen(s, DigitChars)),
                 RunLen(Drop(s, RunLen(s, DigitChars)),
                        CharsOf(UpperChars) \cup CharsOf(LowerChars))) >>
\* the order of Python str on letters: by code point
CharRank(c) == CHOOSE i \in 1..52 : (UpperChars \o LowerChars)[i] = c
RECURSIVE AlphaLess(_, _)
AlphaLess(a, b) ==
    IF b = <<>> THEN FALSE
    ELSE IF a = <<>> THEN TRUE
    ELSE IF Head(a) # Head(b) THEN CharRank(Head(a)) < CharRank(Head(b))
    ELSE AlphaLess(Tail(a), Tail(b))
KeyLess(k1, k2) == k1[1] < k2[1] \/ (k1[1] = k2[1] /\ AlphaLess(k1[2], k2[2]))
\* list.sort(key=extract_numeric_part(Pole)): stable
RECURSIVE insert_by_pole(_, _)
insert_by_pole(sorted, row) ==
    IF sorted = <<>> THEN <<row>>
    ELSE IF KeyLess(extract_numeric_part(row[T_Pole]),
                    extract_numeric_part(sorted[Len(sorted)][T_Pole]))
    THEN Append(insert_by_pole(SubSeq(sorted, 1, Len(sorted) - 1), row),
                sorted[Len(sorted)])
    ELSE Append(sorted, row)
RECURSIVE sort_prefix(_, _)
sort_prefix(rows, n) ==
    IF n = 0 THEN <<>> ELSE insert_by_pole(sort_prefix(rows, n - 1), rows[n])
sort_by_pole(rows) == sort_prefix(rows, Len(rows))

\* process_data raises: ValueError where no node is valid and no template
\* sheet was read (552), TypeError out of the template-only rows
process_data_raises(r) ==
    IF r.nodes = <<>> \/ filter_valid_nodes(run_nodes(r.nodes)) = <<>>
    THEN IF r.sheets # <<>> THEN template_only_raises(r.sheets, r.connections)
         ELSE r.nodes # <<>>
    ELSE FALSE

\* the rows of the branch process_data takes once the mappings exist
\* (596-616): the QC connections first, then the template sheets
connection_rows_ScanTable(r, nodes) ==
    IF qc_is_active(r.qc)
    THEN _process_qc_filtered_connections(r.connections, nodes, r.sections,
                                          r.qc, r.tolerance)
    ELSE IF r.sheets # <<>> \/ template_scids(r.sheets) # <<>>
    THEN _process_template_connections(r.sheets, r.connections, nodes,
                                       r.sections, r.qc, r.tolerance)
    ELSE [i \in 1..Len(r.connections) |->
             minimal_row(scid_or_id(nodes, r.connections[i].node_id_1),
                         scid_or_id(nodes, r.connections[i].node_id_2),
                         Found(r.connections[i]))]
connection_rows_TemplateFirst(r, nodes) ==
    IF r.sheets # <<>> \/ template_scids(r.sheets) # <<>>
    THEN _process_template_connections(r.sheets, r.connections, nodes,
                                       r.sections, r.qc, r.tolerance)
    ELSE IF qc_is_active(r.qc)
    THEN _process_qc_filtered_connections(r.connections, nodes, r.sections,
                                          r.qc, r.tolerance)
    ELSE <<>>
connection_rows(r, nodes) ==
    IF qc_is_active(r.qc)
    THEN _process_qc_filtered_connections(r.connections, nodes, r.sections,
                                          r.qc, r.tolerance)
    ELSE IF r.sheets # <<>> \/ template_scids(r.sheets) # <<>>
    THEN _process_template_connections(r.sheets, r.connections, nodes,
                                       r.sections, r.qc, r.tolerance)
    ELSE <<>>

\* the sort at the end of process_data (626-632): QC order is kept
sorted_unless_qc_AlwaysSort(rows, qc) == sort_by_pole(rows)
sorted_unless_qc(rows, qc) == IF qc_is_active(qc) THEN rows ELSE sort_by_pole(rows)

\* the rows process_data returns (none where it raises)
process_data(r) ==
    IF process_data_raises(r) THEN <<>>
    ELSE IF r.nodes = <<>> \/ filter_valid_nodes(run_nodes(r.nodes)) = <<>>
    THEN _process_template_only_connections(r.sheets)
    ELSE sorted_unless_qc(connection_rows(r, run_nodes(r.nodes)), r.qc)

\* the tolerance pass of write_output over one row (2529-2557)
final_tolerance_row(row, qc, tolerance) ==
    IF /\ Truthy(row[T_Pole]) /\ Truthy(row[T_ToPole])
       /\ ~_is_end_marker(row[T_ToPole])
       /\ Truthy(get_qc_span_length(qc, row[T_Pole], row[T_ToPole]))
       /\ T_SpanLength \in DOMAIN row
       /\ Truthy(row[T_SpanLength])
    THEN [row EXCEPT ![T_SpanLength] =
             _apply_span_length_tolerance(row[T_SpanLength],
                 get_qc_span_length(qc, row[T_Pole], row[T_ToPole]), tolerance)]
    ELSE row
\* sorted_data of write_output: the sort (2452-2458) and, with a QC source,
\* the tolerance pass over the rows (2522-2559)
sorted_data(rows, qc, tolerance) ==
    IF qc_is_active(qc)
    THEN [i \in 1..Len(rows) |->
             _apply_end_marker(final_tolerance_row(rows[i], qc, tolerance))]
    ELSE sort_by_pole(rows)

\* output_settings.header_row and data_start_row, by their defaults
HeaderRow == 1
DataStartRow == HeaderRow + 2
\* a Python int held by a cell of a row
PyInt(n) == <<"int", n>>

\* the indices of filtered_sorted_data for one sheet: the rows whose
\* (Pole, To Pole) text is among the pairs the sheet declares (2569-2579)
RECURSIVE filtered_sorted_data(_, _, _)
filtered_sorted_data(rows, sheet_scids, n) ==
    IF n = 0 THEN <<>>
    ELSE filtered_sorted_data(rows, sheet_scids, n - 1)
         \o (IF \E k \in 1..Len(sheet_scids) :
                    /\ Strip(rows[n][T_Pole]) = Strip(sheet_scids[k][1])
                    /\ Strip(rows[n][T_ToPole]) = Strip(sheet_scids[k][2])
             THEN <<n>> ELSE <<>>)

\* the lists of row indices handed to _write_data_to_worksheet, one per
\* sheet written: the sheets of the template, else the one fallback sheet
written_lists(rows, sheets) ==
    IF sheets # <<>>
    THEN [k \in 1..Len(sheets) |-> filtered_sorted_data(rows, sheets[k], Len(rows))]
    ELSE << [i \in 1..Len(rows) |-> i] >>

\* _write_data_to_worksheet: the row of the sheet each listed row is written
\* at, `_excel_row` when the row has one, else sequential (2991-2993)
_write_data_to_worksheet(rows, list) ==
    [i \in 1..Len(list) |->
        [excel_row |-> IF T_excel_row \in DOMAIN rows[list[i]]
                       THEN rows[list[i]][T_excel_row]
                       ELSE DataStartRow + i - 1,
         row |-> list[i]]]

\* data_row_content['Line No.'] = i (2994), sheet after sheet: the value a
\* row is left with is its position in the last list that holds it
RECURSIVE line_numbered(_, _, _)
line_numbered(row, n, lists) ==
    IF lists = <<>> THEN row
    ELSE line_numbered(
            IF \E i \in 1..Len(Head(lists)) : Head(lists)[i] = n
            THEN Put(row, T_LineNo,
                     PyInt(CHOOSE i \in 1..Len(Head(lists)) : Head(lists)[i] = n))
            ELSE row,
            n, Tail(lists))

\* the rows numbered by their place in sorted_data, whatever the sheets hold
write_output_SortedPlace(rows, sheets, qc, tolerance) ==
    [n \in 1..Len(rows) |->
        Put(sorted_data(rows, qc, tolerance)[n], T_LineNo, PyInt(n))]
\* the rows after write_output (nothing is done for an empty list, 2441-2443)
write_output(rows, sheets, qc, tolerance) ==
    [n \in 1..Len(rows) |->
        line_numbered(sorted_data(rows, qc, tolerance)[n], n,
                      written_lists(sorted_data(rows, qc, tolerance), sheets))]

\* the cells write_output writes, per sheet written
written_sheets(rows, sheets, qc, tolerance) ==
    IF rows = <<>> THEN <<>>
    ELSE [k \in 1..Len(written_lists(sorted_data(rows, qc, tolerance), sheets)) |->
             _write_data_to_worksheet(
                 sorted_data(rows, qc, tolerance),
                 written_lists(sorted_data(rows, qc, tolerance), sheets)[k])]

(***************************************************************************)
(* The runs that are explored.                                             *)
(***************************************************************************)
I_n1 == <<"n","1">>
I_n2 == <<"n","2">>
I_n3 == <<"n","3">>
I_n4 == <<"n","4">>
I_c1 == <<"c","1">>
I_c2 == <<"c","2">>
I_c3 == <<"c","3">>
S_007A == <<"0","0","7"," ","A">>
S_7A == <<"7"," ","A">>
S_008 == <<"0","0","8">>
S_9 == <<"9">>
S_55 == <<"5","5">>
S_56 == <<"5","6">>
S_end == <<"e","n","d">>
S_105_4 == <<"1","0","5",".","4">>
S_60 == <<"6","0">>
S_120 == <<"1","2","0">>
S_121 == <<"1","2","1">>

MainNodes == << Node(I_n1, S_007A, "pole", ""), Node(I_n2, S_008, "pole", ""),
                Node(I_n3, S_9, "reference", "") >>
DupNodes == << Node(I_n1, S_007A, "pole", ""), Node(I_n2, S_008, "pole", ""),
               Node(I_n4, S_7A, "anchor", "") >>
UndergroundNodes == << Node(I_n1, S_007A, "pole", "underground"),
                       Node(I_n4, S_55, "anchor", "") >>

RunSections == << Sec(I_c1, <<Pair(T_Comcast, T_Ft20_6), Pair(T_Neutral, T_Ft25)>>),
                  Sec(I_c3, <<Pair(T_Comcast, T_Ft25)>>) >>

ConnTables ==
    { <<>> }
    \cup { <<Conn(I_c1, I_n1, I_n2, sp)>> : sp \in {S_100, S_105_4, S_110, Blank} }
    \cup { <<Conn(I_c1, I_n1, I_n2, S_100), Conn(I_c2, I_n2, I_n1, S_110)>>,
           <<Conn(I_c2, I_n2, I_n1, S_110), Conn(I_c1, I_n1, I_n2, S_100)>>,
           <<Conn(I_c1, I_n1, I_n2, S_100), Conn(I_c3, I_n1, I_n3, S_60)>>,
           <<Conn(Blank, S_55, S_56, S_121)>> }

\* template pairs with the Excel row of their cell
MaxTemplatePairs == 2
TemplatePairPicks == { <<S_007A, S_008, 2>>, <<S_008, S_end, 3>>,
                       <<S_55, S_008, 4>>, <<S_007A, S_9, 5>> }
TemplateSheets == SeqsUpTo(TemplatePairPicks, MaxTemplatePairs)
SheetLists ==
    { <<>> } \cup { <<sh>> : sh \in TemplateSheets }
    \cup { << <<<<S_008, S_end, 3>>>>, <<<<S_007A, S_008, 2>>>> >>,
           << <<>>, <<<<S_007A, S_9, 5>>>> >>,
           << <<<<S_007A, S_008, 2>>>>, <<<<S_007A, S_008, 5>>>> >>,
           << <<<<S_007A, S_008, 2>>, <<S_008, S_end, 3>>>>, <<<<S_008, S_end, 3>>>> >> }

\* QC connections: a pair of the sheets, an END row, a row with a blank
\* Pole cell and a pair the sheets do not hold
MaxQCConnections == 2
QCConnPicks == { QCConn(S_007A, S_008, S_102), QCConn(S_008, T_END, Blank),
                 QCConn(Blank, S_008, S_60), QCConn(S_55, S_56, S_120) }
QCInactive == [active |-> FALSE, connections |-> <<>>]
QCActive(conns) == [active |-> TRUE, connections |-> conns]
QCLists == SeqsUpTo(QCConnPicks, MaxQCConnections)

Run(nodes, connections, sheets, qc) ==
    [nodes |-> nodes, connections |-> connections, sections |-> RunSections,
     sheets |-> sheets, qc |-> qc, tolerance |-> DefaultTolerance]

TemplateRuns ==
    { Run(MainNodes, c, sh, QCInactive) : c \in ConnTables, sh \in SheetLists }
QCRuns ==
    { Run(MainNodes, c, sh, QCActive(q)) :
        c \in ConnTables, sh \in { <<>>, << <<<<S_007A, S_008, 2>>>> >> },
        q \in QCLists }
EdgeRuns ==
    { Run(n, c, sh, q) :
        n \in { <<>>, UndergroundNodes, DupNodes },
        c \in { <<>>, <<Conn(I_c1, I_n1, I_n2, S_100)>> },
        sh \in { <<>>, << <<<<S_007A, S_008, 2>>, <<S_008, S_end, 3>>>> >> },
        q \in { QCInactive, QCActive(<<QCConn(S_007A, S_008, S_102)>>) } }
Runs == TemplateRuns \cup QCRuns \cup EdgeRuns

InitRun ==
    /\ pc = "run_ready"
    /\ run \in Runs
    /\ result_data = <<>>
    /\ scid = Unset
    /\ ignore_keywords = Unset
    /\ normalized = Unset
    /\ renormalized = Unset
    /\ config = Unset
    /\ attachment_data = Unset
    /\ section = Unset
    /\ trace = Unset
    /\ result = Unset
    /\ span = Unset
    /\ workbook = <<>>
    /\ key = Unset
    /\ audit = Unset
    /\ app = Unset

\* process_data(nodes_df, connections_df, sections_df): the rows it returns,
\* or the exception it raises
ProcessData ==
    /\ pc = "run_ready"
    /\ result_data' = process_data(run)
    /\ pc' = IF process_data_raises(run) THEN "raised" ELSE "processed"
    /\ UNCHANGED <<scid, ignore_keywords, normalized, renormalized, config,
                   attachment_data, section, trace, result, span, run,
                   workbook, key, audit, app>>

\* write_output(result_data, output_file): its passes over the rows
WriteOutput ==
    /\ pc = "processed"
    /\ result_data' = write_output(result_data, run.sheets, run.qc, run.tolerance)
    /\ workbook' = written_sheets(result_data, run.sheets, run.qc, run.tolerance)
    /\ pc' = "written"
    /\ UNCHANGED <<scid, ignore_keywords, normalized, renormalized, config,
                   attachment_data, section, trace, result, span, run,
                   key, audit, app>>

NextRun == ProcessData \/ WriteOutput

SpecRun == InitRun /\ [][NextRun]_vars

(***************************************************************************)
(* Claims about the rows of a run.                                         *)
(***************************************************************************)
Processed == pc = "processed"
Written == pc = "written"
RowIdx == 1..Len(result_data)
ValidNodes == filter_valid_nodes(run_nodes(run.nodes))
QCMode == ValidNodes # <<>> /\ qc_is_active(run.qc)
TemplateMode == ValidNodes # <<>> /\ ~qc_is_active(run.qc) /\ run.sheets # <<>>
IsEndRow(row) == _is_end_marker(row[T_ToPole])
EndMarked(row) ==
    /\ T_SpanLength \in DOMAIN row
    /\ row[T_SpanLength] = T_END
    /\ \A k \in DOMAIN row : Contains(k, T_MidspanWord) => row[k] = T_END

\* C11: in every connection-source mode, after process_data and after the
\* passes of write_output, a row whose To Pole is END (in any case, with or
\* without surrounding blanks) has Span Length "END" and "END" in every
\* field whose key contains "Midspan".
C11_EndMarker ==
    (Processed \/ Written) =>
        \A i \in RowIdx : IsEndRow(result_data[i]) => EndMarked(result_data[i])
C11_Witness ==
    /\ Written
    /\ QCMode
    /\ \E i \in RowIdx :
          /\ result_data[i][T_ToPole] = T_END
          /\ EndMarked(result_data[i])
          /\ T_PowerMidspan \in DOMAIN result_data[i]
C11_WitnessTemplate ==
    /\ Processed
    /\ TemplateMode
    /\ \E i \in RowIdx :
          /\ result_data[i][T_ToPole] = S_end
          /\ EndMarked(result_data[i])
          /\ MidspanKey(T_comm1) \in DOMAIN result_data[i]


\* the span of the connection data behind a QC row of the run
RawExcelSpan(row) ==
    qc_conn_info(normalize_scid(row[T_Pole], RunIgnoreKeywords),
                 normalize_scid(row[T_ToPole], RunIgnoreKeywords),
                 run.connections, run_nodes(run.nodes)).span_distance
QCSpan(row) == get_qc_span_length(run.qc, row[T_Pole], row[T_ToPole])
BothSpansNumeric(row) ==
    /\ Truthy(RawExcelSpan(row)) /\ span_value(RawExcelSpan(row)) # NaN
    /\ Truthy(QCSpan(row)) /\ span_value(QCSpan(row)) # NaN
RawWithinTolerance(row) ==
    AbsDiff(span_value(RawExcelSpan(row)), span_value(QCSpan(row))) <= 10 * run.tolerance

\* C13 as stated: in QC mode, after all the tolerance passes (row creation,
\* QC row creation, write_output), the Span Length of a row with both spans
\* present is the QC value if and only if the raw Excel span and the QC span
\* differ by at most the tolerance.
C13_SpanTolerance ==
    (Written /\ QCMode) =>
        \A i \in RowIdx :
            (~IsEndRow(result_data[i]) /\ BothSpansNumeric(result_data[i])) =>
                (result_data[i][T_SpanLength] = QCSpan(result_data[i])
                     <=> RawWithinTolerance(result_data[i]))


\* the rows are the QC connections, one each, in the declared order and with
\* the declared text
QCRowsAsDeclared ==
    /\ Len(result_data) = Len(run.qc.connections)
    /\ \A i \in RowIdx :
          /\ result_data[i][T_Pole] = run.qc.connections[i].pole
          /\ result_data[i][T_ToPole] = run.qc.connections[i].to_pole
ProcessDataReturned == pc \in {"processed", "raised"}

TemplateDeclares == template_pairs(run.sheets) # <<>>
TemplateTriple(row) == <<row[T_Pole], row[T_ToPole], row[T_excel_row]>>
IsTemplateRow(row) ==
    /\ T_excel_row \in DOMAIN row
    /\ \E k \in 1..Len(template_pairs(run.sheets)) :
          template_pairs(run.sheets)[k] = TemplateTriple(row)
\* a template pair whose Pole is a node of the nodes sheet
PoleIsNode(t) == HasScid(run_nodes(run.nodes), normalize_scid(t[1], RunIgnoreKeywords))
HasRow(t) ==
    \E i \in RowIdx : T_excel_row \in DOMAIN result_data[i]
                      /\ TemplateTriple(result_data[i]) = t
RowsAreTemplatePairs ==
    /\ \A i \in RowIdx : IsTemplateRow(result_data[i])
    /\ \A k \in 1..Len(template_pairs(run.sheets)) :
          PoleIsNode(template_pairs(run.sheets)[k]) => HasRow(template_pairs(run.sheets)[k])

C15_WitnessTemplate ==
    /\ Processed
    /\ TemplateMode
    /\ Len(result_data) = 2
    /\ RowsAreTemplatePairs


\* the connection rows both of whose endpoints are valid nodes (poles or
\* references, not underground)
EligibleConnection(conn) ==
    \E a, b \in 1..Len(ValidNodes) :
        /\ ValidNodes[a].node_id = conn.node_id_1
        /\ ValidNodes[b].node_id = conn.node_id_2
NoGuidance == ~qc_is_active(run.qc) /\ ~TemplateDeclares
HasEligibleConnection ==
    \E k \in 1..Len(run.connections) : EligibleConnection(run.connections[k])
\* a row for the unordered pair of the endpoints of a connection row
PairHasRow(conn) ==
    \E i \in RowIdx :
        {normalize_scid(result_data[i][T_Pole], RunIgnoreKeywords),
         normalize_scid(result_data[i][T_ToPole], RunIgnoreKeywords)}
            = {scid_or_id(run_nodes(run.nodes), conn.node_id_1),
               scid_or_id(run_nodes(run.nodes), conn.node_id_2)}

ResolvedRow(row) ==
    template_conn_info(normalize_scid(row[T_Pole], RunIgnoreKeywords),
                       normalize_scid(row[T_ToPole], RunIgnoreKeywords),
                       row[T_ToPole], run.connections, run_nodes(run.nodes)).found
\* a row without connection fields: no span and no midspan height
ConnectionFieldsBlank(row) ==
    /\ T_SpanLength \in DOMAIN row => row[T_SpanLength] = Blank
    /\ \A k \in DOMAIN row : Contains(k, T_MidspanWord) => row[k] = Blank
PoleOnlyRowsBlank ==
    \A i \in RowIdx :
        (~IsEndRow(result_data[i]) /\ ~ResolvedRow(result_data[i]))
            => ConnectionFieldsBlank(result_data[i])

\* C17 as stated: in template mode every template pair (all of them have a
\* non-blank Pole) yields exactly one row, none is dropped, and the row of a
\* pair without connection data has blank span and midspan fields.
C17_NoTemplatePairDropped ==
    (Processed /\ TemplateMode) =>
        /\ Len(result_data) = Len(template_pairs(run.sheets))
        /\ \A k \in 1..Len(template_pairs(run.sheets)) :
              HasRow(template_pairs(run.sheets)[k])
        /\ PoleOnlyRowsBlank
\* the part of C17 the code keeps: pole-only rows carry no connection fields
C17_PoleOnlyPart == (Processed /\ TemplateMode) => PoleOnlyRowsBlank


\* the rows of a template pair whose "to" node is a reference point and for
\* which connection data was found
ToNodeIsReference(row) ==
    is_pole_to_reference(run_nodes(run.nodes),
                         normalize_scid(row[T_ToPole], RunIgnoreKeywords))
ReferenceRow(row) == ~IsEndRow(row) /\ ResolvedRow(row) /\ ToNodeIsReference(row)
\* the section row of the connection of a row
SectionOfRow(row) ==
    _find_section(
        template_conn_info(normalize_scid(row[T_Pole], RunIgnoreKeywords),
                           normalize_scid(row[T_ToPole], RunIgnoreKeywords),
                           row[T_ToPole], run.connections,
                           run_nodes(run.nodes)).connection_id,
        run.sections)
MidspanKeys(row) == {k \in DOMAIN row : Contains(k, T_MidspanWord)}

RowPole(row) == normalize_scid(row[T_Pole], RunIgnoreKeywords)
RowToPole(row) == normalize_scid(row[T_ToPole], RunIgnoreKeywords)
MatchesRow(conn, row) == conn_matches(run_nodes(run.nodes), conn, RowPole(row), RowToPole(row))
ConflictingSpans(row) ==
    \E a, b \in 1..Len(run.connections) :
        /\ a < b
        /\ MatchesRow(run.connections[a], row)
        /\ MatchesRow(run.connections[b], row)
        /\ run.connections[a].span_distance # run.connections[b].span_distance
\* the Span Length process_data gives the row when it uses the span of the
\* first connection row of the pair
FirstSeenSpanLength(row) ==
    qc_output_row(
        create_output_row((T_Notes :> Blank), RowPole(row), RowToPole(row),
            _find_connection_data(RowPole(row), RowToPole(row), run.connections,
                                  run_nodes(run.nodes)),
            run.qc, run.tolerance),
        row[T_Pole], row[T_ToPole],
        _find_connection_data(RowPole(row), RowToPole(row), run.connections,
                              run_nodes(run.nodes)),
        run.qc, run.tolerance)[1][T_SpanLength]
FirstSeenWins ==
    \A i \in RowIdx :
        (/\ Truthy(result_data[i][T_Pole])
         /\ ~IsEndRow(result_data[i])
         /\ ConflictingSpans(result_data[i]))
            => result_data[i][T_SpanLength] = FirstSeenSpanLength(result_data[i])

\* C19 as stated: when two connection rows give the same unordered pair
\* different spans, the row of the pair is computed from the span of the
\* first of them, in template mode and in QC mode.
C19_FirstSeenWins == (Processed /\ ValidNodes # <<>>) => FirstSeenWins
\* the part of C19 the code keeps: first-seen wins in template mode
C19_TemplatePart == (Processed /\ TemplateMode) => FirstSeenWins


\* C20 as stated: no row of the list process_data returns has a blank Pole,
\* in any connection-source mode.
C20_NoBlankPole ==
    Processed => \A i \in RowIdx : Strip(result_data[i][T_Pole]) # Blank


\* C23 as stated: process_data never raises to its caller, whatever the
\* nodes, connections, sections and template of the run: a run of
\* process_data always ends with a returned list.
C23_NeverRaises == pc # "raised"


(***************************************************************************)
(* The Alden QC reader: the key a pole is stored and looked up under.      *)
(***************************************************************************)
\* AldenQCReader._normalize_pole_number(pole_number)
_normalize_pole_number(pole_number) ==
    IF pole_number = <<>> THEN <<>>
    ELSE LET pole_str == Strip(pole_number)
             unpadded == IF StartsWith(pole_str, <<"0">>) /\ Len(pole_str) > 1
                         THEN Drop(pole_str, RunLen(pole_str, {"0"}))
                         ELSE pole_str
         IN IF unpadded # <<>> THEN unpadded ELSE <<"0">>

MaxKeyLen == 2
KeyAlphabet == {"0", "1", "a", "A", " "}
\* a pole cell is read as str(value).strip() and skipped when that is empty
PoleCells == {s \in SeqsUpTo(KeyAlphabet, MaxKeyLen) : Strip(s) # <<>>}

InitKey ==
    /\ pc = "key_ready"
    /\ key \in [qc_pole : PoleCells, sheet_pole : PoleCells,
                qc_data : {{}}, has_pole : {Unset}]
    /\ scid = Unset
    /\ ignore_keywords = Unset
    /\ normalized = Unset
    /\ renormalized = Unset
    /\ config = Unset
    /\ attachment_data = Unset
    /\ section = Unset
    /\ trace = Unset
    /\ result = Unset
    /\ span = Unset
    /\ run = Unset
    /\ result_data = Unset
    /\ workbook = Unset
    /\ audit = Unset
    /\ app = Unset

\* load_alden_qc_file: the row of the QC file is stored under its key
LoadAldenQCFile ==
    /\ pc = "key_ready"
    /\ key' = [key EXCEPT !.qc_data = {_normalize_pole_number(Strip(key.qc_pole))}]
    /\ pc' = "key_loaded"
    /\ UNCHANGED <<scid, ignore_keywords, normalized, renormalized, config,
                   attachment_data, section, trace, result, span, run,
                   result_data, workbook, audit, app>>

\* has_pole(pole_str) for the pole cell of a row of the Alden sheet
HasPole ==
    /\ pc = "key_loaded"
    /\ key' = [key EXCEPT !.has_pole =
                  _normalize_pole_number(Strip(key.sheet_pole)) \in key.qc_data]
    /\ pc' = "key_looked_up"
    /\ UNCHANGED <<scid, ignore_keywords, normalized, renormalized, config,
                   attachment_data, section, trace, result, span, run,
                   result_data, workbook, audit, app>>

NextKey == LoadAldenQCFile \/ HasPole

SpecKey == InitKey /\ [][NextKey]_vars

\* C24 as stated: the key the QC reader stores a pole under is the
\* Utils.normalize_scid form of the pole, so a pole of the sheet is found in
\* the QC data if and only if its normalize_scid form equals that of the
\* pole of the QC record.
C24_SameKeySpace ==
    /\ pc \in {"key_loaded", "key_looked_up"} =>
          key.qc_data = {normalize_scid(key.qc_pole, <<>>)}
    /\ pc = "key_looked_up" =>
          (key.has_pole <=> normalize_scid(key.sheet_pole, <<>>)
                              = normalize_scid(key.qc_pole, <<>>))

(***************************************************************************)
(* The Alden sheet comparison: one data row against its QC record.         *)
(***************************************************************************)
A_fix == <<"f","i","x">>
A_move == <<"m","o","v","e">>
A_P1_fix == <<"P","1",":"," ","f","i","x">>
A_22ft == <<"2","2","f","t">>
A_22ft_padded == <<" ","2","2","f","t">>
A_23ft == <<"2","3","f","t">>
A_21ft_22ft == <<"2","1","f","t",","," ","2","2","f","t">>
A_NeutralRiser == <<"N","e","u","t","r","a","l"," ","R","i","s","e","r">>
A_RiserPipe == <<"R","i","s","e","r"," ","P","i","p","e">>

F_Pole == "Pole"
F_MRNotes == "MR Notes"
F_MetroAttachment == "Metro Attachment"
F_MetroMid == "Metro Mid"
F_PowerType == "Lowest Power Type"
\* the columns of the sheet that are compared with the QC record
ComparedFields == {F_MRNotes, F_MetroAttachment, F_MetroMid, F_PowerType}

NoFill == "none"
match_fill == "C6EFCE"
mismatch_fill == "FFC7CE"
not_found_fill == "B3D9FF"

\* s.split(':', 1)[1].strip() when s holds a colon, else s
AfterColon(s) ==
    IF \E i \in 1..Len(s) : s[i] = ":"
    THEN Strip(Drop(s, CHOOSE i \in 1..Len(s) :
                          s[i] = ":" /\ \A j \in 1..(i - 1) : s[j] # ":"))
    ELSE s

\* [v.strip() for v in s.split(',')], as a set
CommaValues(s) ==
    {Strip(SubSeq(s, i, j)) : <<i, j>> \in
        {p \in (1..(Len(s) + 1)) \X (0..Len(s)) :
            /\ p[1] <= p[2] + 1
            /\ \A k \in p[1]..p[2] : s[k] # ","
            /\ (p[1] = 1 \/ s[p[1] - 1] = ",")
            /\ (p[2] = Len(s) \/ s[p[2] + 1] = ",")}}

\* set(re.findall(r'\b\w+\b', s))
WordsOf(s) ==
    {SubSeq(s, p[1], p[2]) : p \in
        {q \in (1..Len(s)) \X (1..Len(s)) :
            /\ q[1] <= q[2]
            /\ \A k \in q[1]..q[2] : IsWordChar(s[k])
            /\ ~IsWordAt(s, q[1] - 1)
            /\ ~IsWordAt(s, q[2] + 1)}}

\* the MR Notes comparison of _apply_alden_qc_comparison
compare_mr_notes(mr_notes_value, qc_mr_notes) ==
    IF AfterColon(Strip(mr_notes_value)) = Strip(qc_mr_notes)
    THEN match_fill ELSE mismatch_fill

\* _compare_metronet_attachment_height
_compare_metronet_attachment_height(template_value, qc_value) ==
    IF qc_value = <<>> THEN NoFill
    ELSE IF template_value = <<>> THEN mismatch_fill
    ELSE IF Strip(template_value) = Strip(qc_value) THEN match_fill
    ELSE mismatch_fill

\* _compare_metronet_midspan_height
_compare_metronet_midspan_height(template_value, qc_value) ==
    IF qc_value = <<>> THEN NoFill
    ELSE IF template_value = <<>> THEN mismatch_fill
    ELSE IF \E i \in 1..Len(Strip(qc_value)) : Strip(qc_value)[i] = ","
    THEN (IF Strip(template_value) \in CommaValues(Strip(qc_value))
          THEN match_fill ELSE mismatch_fill)
    ELSE IF Strip(template_value) = Strip(qc_value) THEN match_fill
    ELSE mismatch_fill

\* the three tests of _compare_power_type on the lower-cased texts
power_type_is_match(template_lower, qc_lower, power_keywords) ==
    LET normalized_power_keywords ==
            {Lower(Strip(power_keywords[k])) :
                k \in {i \in 1..Len(power_keywords) : Strip(power_keywords[i]) # <<>>}}
        template_keywords == WordsOf(template_lower) \cap normalized_power_keywords
        qc_keywords == WordsOf(qc_lower) \cap normalized_power_keywords
    IN \/ Contains(qc_lower, template_lower)
       \/ Contains(template_lower, qc_lower)
       \/ (template_keywords # {} /\ qc_keywords # {}
             /\ template_keywords \cap qc_keywords # {})
       \/ ContainsWord(qc_lower, template_lower)
       \/ ContainsWord(template_lower, qc_lower)

\* _compare_power_type
_compare_power_type(template_value, qc_attachment_type, power_keywords) ==
    IF qc_attachment_type = <<>> THEN NoFill
    ELSE IF template_value = <<>> THEN mismatch_fill
    ELSE IF power_type_is_match(Lower(Strip(template_value)),
                                Lower(Strip(qc_attachment_type)), power_keywords)
    THEN match_fill ELSE mismatch_fill

\* the body of the row loop of _apply_alden_qc_comparison: the fills of the
\* cells of one data row
alden_row_fills(row, has_pole, qc, power_keywords) ==
    IF ~has_pole
    THEN [f \in ComparedFields \cup {F_Pole} |->
             IF f = F_Pole THEN not_found_fill ELSE NoFill]
    ELSE (F_Pole :> NoFill)
      @@ (F_MRNotes :> compare_mr_notes(row[F_MRNotes], qc[F_MRNotes]))
      @@ (F_MetroAttachment :>
             _compare_metronet_attachment_height(row[F_MetroAttachment],
                                                 qc[F_MetroAttachment]))
      @@ (F_MetroMid :>
             _compare_metronet_midspan_height(row[F_MetroMid], qc[F_MetroMid]))
      @@ (F_PowerType :>
             _compare_power_type(row[F_PowerType], qc[F_PowerType], power_keywords))

\* cell values of a data row of the Alden sheet (an empty cell is <<>>)
AldenRows ==
    [{F_MRNotes} -> {<<>>, A_fix, A_P1_fix, A_move}]
    \X [{F_MetroAttachment} -> {<<>>, A_22ft, A_22ft_padded, A_23ft}]
    \X [{F_MetroMid} -> {<<>>, A_22ft, A_23ft}]
    \X [{F_PowerType} -> {<<>>, T_Primary, A_NeutralRiser}]
\* what the QC reader returns for the pole (an absent value is '')
QCRecords ==
    [{F_MRNotes} -> {<<>>, A_fix}]
    \X [{F_MetroAttachment} -> {<<>>, A_22ft}]
    \X [{F_MetroMid} -> {<<>>, A_22ft, A_21ft_22ft}]
    \X [{F_PowerType} -> {<<>>, T_Secondary, A_RiserPipe}]
Fields(t) == t[1] @@ t[2] @@ t[3] @@ t[4]
NoFills == [f \in ComparedFields \cup {F_Pole} |-> NoFill]

InitAudit ==
    /\ pc = "audit_ready"
    /\ \E r \in AldenRows, q \in QCRecords, found \in BOOLEAN :
          audit = [row |-> Fields(r),
                   has_pole |-> found,
                   qc |-> IF found THEN Fields(q)
                          ELSE [f \in ComparedFields |-> <<>>],
                   fill |-> NoFills]
    /\ scid = Unset
    /\ ignore_keywords = Unset
    /\ normalized = Unset
    /\ renormalized = Unset
    /\ config = Unset
    /\ attachment_data = Unset
    /\ section = Unset
    /\ trace = Unset
    /\ result = Unset
    /\ span = Unset
    /\ run = Unset
    /\ result_data = Unset
    /\ workbook = Unset
    /\ key = Unset
    /\ app = Unset

\* _apply_alden_qc_comparison(wb) on the row
ApplyAldenQCComparison ==
    /\ pc = "audit_ready"
    /\ audit' = [audit EXCEPT !.fill =
                    alden_row_fills(audit.row, audit.has_pole, audit.qc,
                                    DefaultConfig.power_keywords)]
    /\ pc' = "audited"
    /\ UNCHANGED <<scid, ignore_keywords, normalized, renormalized, config,
                   attachment_data, section, trace, result, span, run,
                   result_data, workbook, key, app>>

NextAudit == ApplyAldenQCComparison

SpecAudit == InitAudit /\ [][NextAudit]_vars

Audited == pc = "audited"
Marked(f) == audit.fill[f] \in {match_fill, mismatch_fill}

\* C25 as stated: in the comparison of a row of the audit sheet, when the
\* pole is absent from the QC source only the pole cell is flagged and no
\* field is marked; when the QC value of a field (the maintenance notes
\* included) is absent the field is left unmarked; otherwise the field is
\* marked Match or Mismatch.
C25_Classification ==
    Audited =>
        IF ~audit.has_pole
        THEN /\ audit.fill[F_Pole] = not_found_fill
             /\ \A f \in ComparedFields : audit.fill[f] = NoFill
        ELSE /\ audit.fill[F_Pole] = NoFill
             /\ \A f \in ComparedFields :
                   IF audit.qc[f] = <<>> THEN audit.fill[f] = NoFill
                   ELSE Marked(f)
\* the part of C25 the code keeps: the claim for every field but the notes
C25_HeightFields ==
    Audited =>
        IF ~audit.has_pole
        THEN /\ audit.fill[F_Pole] = not_found_fill
             /\ \A f \in ComparedFields : audit.fill[f] = NoFill
        ELSE /\ audit.fill[F_Pole] = NoFill
             /\ \A f \in ComparedFields \ {F_MRNotes} :
                   IF audit.qc[f] = <<>> THEN audit.fill[f] = NoFill
                   ELSE Marked(f)

(***************************************************************************)
(* Claims about write_output: the rows it changes and the cells it writes. *)
(***************************************************************************)
\* the two rows agree on every field outside K
SameExcept(a, b, K) ==
    /\ (DOMAIN a) \ K = (DOMAIN b) \ K
    /\ \A k \in (DOMAIN a) \ K : a[k] = b[k]
\* the fields the QC tolerance pass may change
ToleranceFields == IF QCMode THEN {T_SpanLength} ELSE {}
\* every row after the step is a row from before it, fields of K aside
RowsKeptExcept(K) ==
    /\ Len(result_data') = Len(result_data)
    /\ \A n \in 1..Len(result_data') :
          \E m \in 1..Len(result_data) :
              SameExcept(result_data[m], result_data'[n], K)
\* the lists of the sheets written that hold row n, and its place in them
ListsHolding(n) ==
    {k \in 1..Len(workbook') : \E i \in 1..Len(workbook'[k]) : workbook'[k][i].row = n}
PlaceIn(k, n) == CHOOSE i \in 1..Len(workbook'[k]) : workbook'[k][i].row = n
LastListHolding(n) == CHOOSE k \in ListsHolding(n) : \A j \in ListsHolding(n) : j <= k

DeclaredBy(sheet_scids, row, excel_row) ==
    \E k \in 1..Len(sheet_scids) :
        /\ Strip(sheet_scids[k][1]) = Strip(row[T_Pole])
        /\ Strip(sheet_scids[k][2]) = Strip(row[T_ToPole])
        /\ sheet_scids[k][3] = excel_row
MultiSheet == Len(run.sheets) >= 2

\* C30 as stated: with a template of several sheets, every row write_output
\* writes into a sheet was declared by that sheet and is written at the row
\* number of that declaration, also when several sheets declare the same
\* (Pole, To Pole) text.
C30_OwnSheetOnly ==
    (Written /\ MultiSheet) =>
        \A k \in 1..Len(workbook) : \A i \in 1..Len(workbook[k]) :
            DeclaredBy(run.sheets[k], result_data[workbook[k][i].row],
                       workbook[k][i].excel_row)
\* the part of C30 the code keeps: a row is written only into sheets that
\* declare its (Pole, To Pole) text
C30_PairDeclared ==
    (Written /\ MultiSheet) =>
        \A k \in 1..Len(workbook) : \A i \in 1..Len(workbook[k]) :
            \E e \in 2..5 :
                DeclaredBy(run.sheets[k], result_data[workbook[k][i].row], e)

(***************************************************************************)
(* The window (src/src/gui/main_window.py): the process button, the stop   *)
(* flag, the worker threads and the reset callbacks queued with            *)
(* root.after.  The GUI thread runs ProcessFiles and ResetProcessButton;   *)
(* every other action is a step of a worker thread.  A step holds at most  *)
(* one access to what the threads share (the stop flag, the event queue,   *)
(* the liveness of the thread).                                            *)
(***************************************************************************)
MaxWorkers == 3
WorkerIds == 1..MaxWorkers

\* what a run is given: the sheets of the input file and of the template
\* (no nodes stands for no input file), the state of the template file and
\* whether an attachment file was chosen
AppInput(nodes, connections, sheets, template_file, attachment_file) ==
    [data |-> Run(nodes, connections, sheets, QCInactive),
     template_file |-> template_file, attachment_file |-> attachment_file]
TwoPairSheet == << <<S_007A, S_008, 2>>, <<S_008, S_end, 3>> >>
AppInputs ==
    { AppInput(MainNodes, <<Conn(I_c1, I_n1, I_n2, S_100)>>, <<TwoPairSheet>>, "readable", TRUE),
      AppInput(<<>>, <<>>, <<TwoPairSheet>>, "readable", FALSE),
      AppInput(MainNodes, <<Conn(I_c1, I_n1, I_n2, S_100)>>, << <<>> >>, "readable", FALSE),
      AppInput(MainNodes, <<Conn(I_c1, I_n1, I_n2, S_100)>>, <<TwoPairSheet>>, "corrupt", FALSE),
      AppInput(MainNodes, <<>>, <<TwoPairSheet>>, "missing", FALSE),
      AppInput(UndergroundNodes, <<>>, <<>>, "readable", FALSE) }

\* read_template_scids(output_file): the pairs per sheet, none for a file
\* that is missing or cannot be loaded
read_template_scids(sheets, template_file) ==
    IF template_file = "readable" THEN sheets ELSE <<>>
\* the run process_data works on inside the worker
WorkerRun == [run EXCEPT !.sheets = read_template_scids(run.sheets, app.template_file)]
\* process_data leaves before its checkpoint 50 (513-558)
LeavesEarly(r) == r.nodes = <<>> \/ filter_valid_nodes(run_nodes(r.nodes)) = <<>>

NewWorker ==
    [pc |-> "unborn", result_data |-> Unset, saw_false |-> FALSE,
     pd_false |-> FALSE, late |-> {}, output_file |-> FALSE,
     complete |-> FALSE, reset_scheduled |-> FALSE]

InitApp ==
    /\ pc = "app"
    /\ \E i \in AppInputs :
          /\ run = i.data
          /\ app = [template_file |-> i.template_file,
                    attachment_file |-> i.attachment_file,
                    button |-> "Process Files", button_state |-> "normal",
                    stop_processing |-> FALSE, processing_thread |-> 0,
                    after |-> 0, started |-> 0,
                    workers |-> [w \in WorkerIds |-> NewWorker]]
    /\ result_data = Unset
    /\ scid = Unset
    /\ ignore_keywords = Unset
    /\ normalized = Unset
    /\ renormalized = Unset
    /\ config = Unset
    /\ attachment_data = Unset
    /\ section = Unset
    /\ trace = Unset
    /\ result = Unset
    /\ span = Unset
    /\ workbook = Unset
    /\ key = Unset
    /\ audit = Unset

Alive(w) == app.workers[w].pc \notin {"unborn", "exited"}
\* self.processing_thread and self.processing_thread.is_alive()
ThreadAlive == app.processing_thread # 0 /\ Alive(app.processing_thread)
AppUnchanged ==
    UNCHANGED <<pc, scid, ignore_keywords, normalized, renormalized, config,
                attachment_data, section, trace, result, span, run,
                result_data, workbook, key, audit>>

\* process_files: a click on the process button
ProcessFiles ==
    /\ pc = "app"
    /\ app.button_state = "normal"
    /\ IF ThreadAlive
       THEN app' = [app EXCEPT !.stop_processing = TRUE,
                               !.button = "Stopping...",
                               !.button_state = "disabled"]
       ELSE /\ app.started < MaxWorkers
            /\ app' = [app EXCEPT !.stop_processing = FALSE,
                                  !.button = "STOP",
                                  !.button_state = "normal",
                                  !.processing_thread = app.started + 1,
                                  !.started = app.started + 1,
                                  !.workers[app.started + 1].pc = "cp0"]
    /\ AppUnchanged

\* reset_process_button, run by the event loop for a root.after(0, ...)
ResetProcessButton ==
    /\ pc = "app"
    /\ app.after > 0
    /\ app' = [app EXCEPT !.after = app.after - 1,
                          !.button = "Process Files",
                          !.button_state = "normal",
                          !.processing_thread = 0,
                          !.stop_processing = FALSE]
    /\ AppUnchanged

\* the checkpoint after cp in _process_files_worker
NextCheckpoint(cp) ==
    CASE cp = "cp0" -> IF run.nodes # <<>> THEN "cp10" ELSE "cp15"
      [] cp = "cp10" -> "cp15"
      [] cp = "cp15" -> IF app.attachment_file THEN "cp25" ELSE "cp30"
      [] cp = "cp25" -> "cp30"
      [] cp = "cp30" -> "cp35"
      [] cp = "cp35" -> "cp40"
      [] cp = "cp40" -> "pd40"

\* `if not progress_callback(p, ...): ...; return` of the worker, at 0, 10,
\* 15, 25, 30, 35 and 40, with the work that follows the checkpoint
WorkerCheckpoint(w) ==
    /\ pc = "app"
    /\ app.workers[w].pc \in {"cp0", "cp10", "cp15", "cp25", "cp30", "cp35", "cp40"}
    /\ app' = IF app.stop_processing
              THEN [app EXCEPT !.workers[w].saw_false = TRUE,
                               !.workers[w].pc = "schedule"]
              ELSE [app EXCEPT !.workers[w].pc = NextCheckpoint(app.workers[w].pc)]
    /\ AppUnchanged

\* process_data in the worker: its checkpoints 40 (return value unused), 50,
\* 70 and 90, and the rows or the exception it ends with
ProcessDataCheckpoint(w) ==
    /\ pc = "app"
    /\ app.workers[w].pc \in {"pd40", "pd50", "pd70", "pd90"}
    /\ LET here == app.workers[w].pc
           refused == app.stop_processing
           ends == \/ here = "pd40" /\ LeavesEarly(WorkerRun)
                   \/ here # "pd40" /\ refused
                   \/ here = "pd90"
       IN app' = [app EXCEPT
             !.workers[w].saw_false = @ \/ refused,
             !.workers[w].pd_false = @ \/ refused,
             !.workers[w].result_data =
                 IF ~ends \/ (here = "pd40" /\ process_data_raises(WorkerRun)) THEN @
                 ELSE IF here # "pd40" /\ refused THEN <<>>
                 ELSE process_data(WorkerRun),
             !.workers[w].pc =
                 IF ends
                 THEN (IF here = "pd40" /\ process_data_raises(WorkerRun)
                       THEN "failed" ELSE "cp85")
                 ELSE (CASE here = "pd40" -> "pd50"
                         [] here = "pd50" -> "pd70"
                         [] here = "pd70" -> "pd90")]
    /\ AppUnchanged

\* progress_callback(85, ...) and generate_output_file: the template is
\* copied to the output directory, or there is no template to copy
GenerateOutputFile(w) ==
    /\ pc = "app"
    /\ app.workers[w].pc = "cp85"
    /\ LET seen == app.workers[w].saw_false \/ app.stop_processing
       IN app' = [app EXCEPT
             !.workers[w].saw_false = seen,
             !.workers[w].output_file = app.template_file # "missing",
             !.workers[w].late =
                 IF seen /\ app.template_file # "missing"
                 THEN @ \cup {"output file"} ELSE @,
             !.workers[w].pc =
                 IF app.template_file # "missing" THEN "cp90" ELSE "gen_failed"]
    /\ AppUnchanged

\* progress_callback(90, ...) and processor.write_output
WriteOutputFile(w) ==
    /\ pc = "app"
    /\ app.workers[w].pc = "cp90"
    /\ LET seen == app.workers[w].saw_false \/ app.stop_processing
       IN app' = [app EXCEPT
             !.workers[w].saw_false = seen,
             !.workers[w].late = IF seen THEN @ \cup {"write_output"} ELSE @,
             !.workers[w].pc = "cp100"]
    /\ AppUnchanged

\* progress_callback(100, "Processing complete!") and the log lines of it
ReportComplete(w) ==
    /\ pc = "app"
    /\ app.workers[w].pc = "cp100"
    /\ LET seen == app.workers[w].saw_false \/ app.stop_processing
       IN app' = [app EXCEPT
             !.workers[w].saw_false = seen,
             !.workers[w].complete = TRUE,
             !.workers[w].late = IF seen THEN @ \cup {"complete"} ELSE @,
             !.workers[w].pc = "schedule"]
    /\ AppUnchanged

\* progress_callback(0, ...) of the two failure paths: the except handler,
\* which goes on to schedule the reset, and `if not actual_output_file`,
\* which returns
WorkerFailed(w) ==
    /\ pc = "app"
    /\ app.workers[w].pc \in {"failed", "gen_failed"}
    /\ app' = [app EXCEPT
          !.workers[w].saw_false = @ \/ app.stop_processing,
          !.workers[w].pc = IF app.workers[w].pc = "failed"
                            THEN "schedule" ELSE "returning"]
    /\ AppUnchanged

\* self.root.after(0, self.reset_process_button)
ScheduleReset(w) ==
    /\ pc = "app"
    /\ app.workers[w].pc = "schedule"
    /\ app' = [app EXCEPT !.after = app.after + 1,
                          !.workers[w].reset_scheduled = TRUE,
                          !.workers[w].pc = "returning"]
    /\ AppUnchanged

\* the worker function returns: the thread is no longer alive
WorkerReturn(w) ==
    /\ pc = "app"
    /\ app.workers[w].pc = "returning"
    /\ app' = [app EXCEPT !.workers[w].pc = "exited"]
    /\ AppUnchanged

NextApp ==
    \/ ProcessFiles
    \/ ResetProcessButton
    \/ \E w \in WorkerIds :
          \/ WorkerCheckpoint(w)
          \/ ProcessDataCheckpoint(w)
          \/ GenerateOutputFile(w)
          \/ WriteOutputFile(w)
          \/ ReportComplete(w)
          \/ WorkerFailed(w)
          \/ ScheduleReset(w)
          \/ WorkerReturn(w)

SpecApp == InitApp /\ [][NextApp]_vars

(***************************************************************************)
(* Claims about the window and its workers.                                *)
(***************************************************************************)
Exited(w) == app.workers[w].pc = "exited"
\* the template gives the run nothing to work from
TemplateUnusable ==
    \/ app.template_file \in {"missing", "corrupt"}
    \/ all_template_scids(run.sheets, Len(run.sheets)) = <<>>

\* C21 as stated: when the template is missing, corrupt or empty, or holds
\* no template connection, the run aborts: no output file is created on
\* disk and the run is not reported complete.
C21_AbortsWithoutTemplate ==
    TemplateUnusable =>
        \A w \in WorkerIds :
            ~app.workers[w].output_file /\ ~app.workers[w].complete


\* C22 as stated: whenever the progress callback has returned false at a
\* checkpoint inside process_data, the list process_data returns is empty.
C22_CancelledReturnsEmpty ==
    \A w \in WorkerIds :
        (app.workers[w].pd_false /\ app.workers[w].result_data # Unset)
            => app.workers[w].result_data = <<>>
\* the part of C22 the code keeps: a stop request changes no worker's
\* position; it is seen at the next checkpoint only
C22_NoInterruption ==
    [][(app'.stop_processing /\ ~app.stop_processing)
          => \A w \in WorkerIds :
                (Alive(w) /\ w # app'.processing_thread)
                    => app'.workers[w] = app.workers[w]]_vars


\* C27 as stated: at any time at most one worker thread is alive, whatever
\* the interleaving of clicks, worker termination and the deferred
\* reset_process_button.
C27_OneWorker == Cardinality({w \in WorkerIds : Alive(w)}) <= 1


\* C28 as stated: once the progress callback has returned false during a
\* run, the worker executes no later phase: it creates no output file,
\* does not call write_output and does not report completion.
C28_NoPhaseAfterStop == \A w \in WorkerIds : app.workers[w].late = {}


\* C29 as stated: on every exit path of the worker reset_process_button has
\* been scheduled by the time the worker has returned.
C29_ResetScheduled ==
    \A w \in WorkerIds : Exited(w) => app.workers[w].reset_scheduled

====
